---- MODULE Spec2Model ----
(***************************************************************************)
(* The three localisation scripts of the repository: the extraction of     *)
(* pending entries (extract_remaining_todos.py), the import of manual      *)
(* translations (import_translations.py) and the heuristic translator      *)
(* (translate_all.py), over one catalog file and one side artifact.        *)
(*                                                                         *)
(* A Python str is a sequence of characters.  An ASCII character is a      *)
(* one-character string; a Chinese character is written by its pinyin     *)
(* name ("jia" is one character, U+52A0), so Len counts characters as      *)
(* Python's len does.                                                      *)
(***************************************************************************)
EXTENDS Integers, Sequences, FiniteSets, TLC

VARIABLES
  catalogFile,  \* en.json on disk: the ordered entries [key, value]
  sideFile,     \* translations-remaining.json: [exists, map, json]
  ext,          \* one invocation of extract_remaining_todos.py
  imp,          \* one invocation of import_translations.py
  tr,           \* one invocation of translate_all.py
  runs,         \* invocations started so far
  hist,         \* history: the invocations that finished, in order
  txt,          \* argument of a direct call of translate_text
  res           \* its result, or NotCalled

vars == <<catalogFile, sideFile, ext, imp, tr, runs, hist, txt, res>>

----------------------------------------------------------------------------
\* Bounds of the model

\* entries in the catalog
MaxKeys == 2
\* tool invocations in one behaviour
MaxRuns == 2
\* words in the text handed to translate_text directly
MaxWords == 3

----------------------------------------------------------------------------
\* Python str operations

\* '[TODO: Translate]'
MARKER == <<"[", "T", "O", "D", "O", ":", " ", "T", "r", "a", "n", "s", "l", "a", "t", "e", "]">>

\* '[TODO: Translate] '
MARKER_SP == MARKER \o <<" ">>

\* s.startswith(p)
startswith(s, p) == Len(s) >= Len(p) /\ SubSeq(s, 1, Len(p)) = p

\* s.endswith(p)
endswith(s, p) == Len(s) >= Len(p) /\ SubSeq(s, Len(s) - Len(p) + 1, Len(s)) = p

\* s[n:]
dropFirst(s, n) == SubSeq(s, n + 1, Len(s))

\* s[:-n]
dropLast(s, n) == SubSeq(s, 1, Len(s) - n)

\* s.find(sub) + 1: the position of the leftmost occurrence of sub, 0 if none
find(s, sub) ==
  LET hits == {i \in 1..(Len(s) - Len(sub) + 1) : SubSeq(s, i, i + Len(sub) - 1) = sub}
  IN  IF hits = {} THEN 0 ELSE CHOOSE i \in hits : \A j \in hits : i <= j

\* sub in s
contains(s, sub) == find(s, sub) # 0

\* s.replace(old, new), old non-empty: every non-overlapping occurrence,
\* scanning once from the left
RECURSIVE replace(_, _, _)
replace(s, old, new) ==
  IF Len(s) = 0 THEN <<>>
  ELSE IF startswith(s, old) THEN new \o replace(dropFirst(s, Len(old)), old, new)
  ELSE <<Head(s)>> \o replace(Tail(s), old, new)

\* s.split(sep, 1): [s] when sep does not occur, else [left, right] around the
\* first occurrence
split1(s, sep) ==
  LET p == find(s, sep)
  IN  IF p = 0 THEN <<s>>
      ELSE <<SubSeq(s, 1, p - 1), SubSeq(s, p + Len(sep), Len(s))>>

\* c.lower() for one character
lowerChar(c) ==
  CASE c = "A" -> "a" [] c = "B" -> "b" [] c = "C" -> "c" [] c = "D" -> "d"
    [] c = "E" -> "e" [] c = "F" -> "f" [] c = "G" -> "g" [] c = "H" -> "h"
    [] c = "I" -> "i" [] c = "J" -> "j" [] c = "K" -> "k" [] c = "L" -> "l"
    [] c = "M" -> "m" [] c = "N" -> "n" [] c = "O" -> "o" [] c = "P" -> "p"
    [] c = "Q" -> "q" [] c = "R" -> "r" [] c = "S" -> "s" [] c = "T" -> "t"
    [] c = "U" -> "u" [] c = "V" -> "v" [] c = "W" -> "w" [] c = "X" -> "x"
    [] c = "Y" -> "y" [] c = "Z" -> "z" [] OTHER -> c

\* s.lower()
lower(s) == [i \in 1..Len(s) |-> lowerChar(s[i])]

----------------------------------------------------------------------------
\* Values

\* a JSON string value
Str(s) == [isStr |-> TRUE, s |-> s]

\* a JSON value that is not a string (a number, a list, null), by its text
NonStr(s) == [isStr |-> FALSE, s |-> s]

\* isinstance(value, str)
isinstance_str(value) == value.isStr

\* Python's None, and a returned str
None == [none |-> TRUE, s |-> <<>>]

Some(s) == [none |-> FALSE, s |-> s]

\* truth value of an Optional[str]: None and '' are falsy
truthy(r) == ~r.none /\ r.s # <<>>

----------------------------------------------------------------------------
\* translate_all.py: the phrase dictionary

\* TRANSLATIONS restricted to the keys that occur inside the texts of the model
DictPairs ==
  { <<<<"jia", "zai">>, <<"L", "o", "a", "d">>>>,   \* 加载 -> Load
    <<<<"yi", "jia", "zai">>, <<"L", "o", "a", "d", "e", "d">>>>,   \* 已加载 -> Loaded
    <<<<"jia", "zai", "zhong">>, <<"L", "o", "a", "d", "i", "n", "g">>>>,   \* 加载中 -> Loading
    <<<<"jia", "zai", "shi", "bai">>, <<"F", "a", "i", "l", "e", "d", " ", "t", "o", " ", "l", "o", "a", "d">>>>,   \* 加载失败 -> Failed to load
    <<<<"da", "kai">>, <<"O", "p", "e", "n">>>>,   \* 打开 -> Open
    <<<<"dao", "chu">>, <<"E", "x", "p", "o", "r", "t">>>>,   \* 导出 -> Export
    <<<<"chuang", "jian">>, <<"C", "r", "e", "a", "t", "e">>>>,   \* 创建 -> Create
    <<<<"xuan", "ze">>, <<"S", "e", "l", "e", "c", "t">>>>,   \* 选择 -> Select
    <<<<"cheng", "gong">>, <<"S", "u", "c", "c", "e", "s", "s">>>>,   \* 成功 -> Success
    <<<<"shi", "bai">>, <<"F", "a", "i", "l", "e", "d">>>>,   \* 失败 -> Failed
    <<<<"cuo", "wu4">>, <<"E", "r", "r", "o", "r">>>>,   \* 错误 -> Error
    <<<<"xin", "xi">>, <<"I", "n", "f", "o", "r", "m", "a", "t", "i", "o", "n">>>>,   \* 信息 -> Information
    <<<<"zan", "wu">>, <<"N", "o">>>>,   \* 暂无 -> No
    <<<<"qi3", "yong">>, <<"E", "n", "a", "b", "l", "e">>>>,   \* 启用 -> Enable
    <<<<"jin", "yong">>, <<"D", "i", "s", "a", "b", "l", "e">>>>,   \* 禁用 -> Disable
    <<<<"she", "zhi">>, <<"S", "e", "t", "t", "i", "n", "g", "s">>>>,   \* 设置 -> Settings
    <<<<"pei", "zhi">>, <<"C", "o", "n", "f", "i", "g", "u", "r", "e">>>>,   \* 配置 -> Configure
    <<<<"lie", "biao">>, <<"L", "i", "s", "t">>>>,   \* 列表 -> List
    <<<<"mo", "shi4">>, <<"M", "o", "d", "e">>>>,   \* 模式 -> Mode
    <<<<"lei", "xing">>, <<"T", "y", "p", "e">>>>,   \* 类型 -> Type
    <<<<"zhuang", "tai">>, <<"S", "t", "a", "t", "u", "s">>>>,   \* 状态 -> Status
    <<<<"ming", "cheng1">>, <<"N", "a", "m", "e">>>>,   \* 名称 -> Name
    <<<<"nei", "rong">>, <<"c", "o", "n", "t", "e", "n", "t">>>>,   \* 内容 -> content
    <<<<"wen", "jian4">>, <<"F", "i", "l", "e">>>>,   \* 文件 -> File
    <<<<"qing", "qiu">>, <<"R", "e", "q", "u", "e", "s", "t">>>>,   \* 请求 -> Request
    <<<<"xiang", "ying">>, <<"R", "e", "s", "p", "o", "n", "s", "e">>>>,   \* 响应 -> Response
    <<<<"huo">>, <<"o", "r">>>>,   \* 或 -> or
    <<<<"lu", "jing">>, <<"P", "a", "t", "h">>>>,   \* 路径 -> Path
    <<<<"chuang", "jian", "hui", "hua", "shi", "bai">>, <<"F", "a", "i", "l", "e", "d", " ", "t", "o", " ", "c", "r", "e", "a", "t", "e", " ", "s", "e", "s", "s", "i", "o", "n">>>>,   \* 创建会话失败 -> Failed to create session
    <<<<"hui", "hua">>, <<"S", "e", "s", "s", "i", "o", "n">>>>,   \* 会话 -> Session
    <<<<"hou">>, <<"B", "a", "c", "k">>>>,   \* 后 -> Back
    <<<<"zhong">>, <<"M", "e", "d", "i", "u", "m">>>>,   \* 中 -> Medium
    <<<<"nei">>, <<"I", "n", "s", "i", "d", "e">>>>,   \* 内 -> Inside
    <<<<"gui", "dang">>, <<"A", "r", "c", "h", "i", "v", "e">>>>,   \* 归档 -> Archive
    <<<<"he">>, <<"a", "n", "d">>>>,   \* 和 -> and
    <<<<"zhong", "de">>, <<"i", "n">>>>,   \* 中的 -> in
    <<<<"de", "zhi2">>, <<"v", "a", "l", "u", "e">>>>,   \* 的值 -> value
    <<<<"yi", "dao", "chu">>, <<"E", "x", "p", "o", "r", "t", "e", "d">>>>,   \* 已导出 -> Exported
    <<<<"yi", "chuang", "jian">>, <<"C", "r", "e", "a", "t", "e", "d">>>>,   \* 已创建 -> Created
    <<<<"chuang", "jian", "hui", "hua">>, <<"C", "r", "e", "a", "t", "e", " ", "s", "e", "s", "s", "i", "o", "n">>>> }   \* 创建会话 -> Create session

DictKeys == {p[1] : p \in DictPairs}

\* text in TRANSLATIONS
inTRANSLATIONS(text) == text \in DictKeys

\* TRANSLATIONS[text]
TRANSLATIONS(text) == (CHOOSE p \in DictPairs : p[1] = text)[2]

\* TRANSLATIONS.get(text, default)
TRANSLATIONS_get(text, default) ==
  IF inTRANSLATIONS(text) THEN TRANSLATIONS(text) ELSE default

RECURSIVE translate_text(_, _)


\* rule_load that resolves a rest that is no key by translate_text before it
\* falls back to the raw rest
rule_load_recursive(chinese_text, context_key) ==
  LET rest == dropFirst(chinese_text, 2)
      rest_trans == translate_text(rest, context_key)
  IN  IF inTRANSLATIONS(rest) THEN Some(<<"L", "o", "a", "d", " ">> \o lower(TRANSLATIONS(rest)))
      ELSE IF truthy(rest_trans) THEN Some(<<"L", "o", "a", "d", " ">> \o lower(rest_trans.s))
      ELSE Some(<<"L", "o", "a", "d", " ">> \o rest)

\* "加载X" -> "Load X": dictionary, else the raw rest
rule_load(chinese_text, context_key) ==
  LET rest == dropFirst(chinese_text, 2)
  IN  IF inTRANSLATIONS(rest) THEN Some(<<"L", "o", "a", "d", " ">> \o lower(TRANSLATIONS(rest)))
      ELSE Some(<<"L", "o", "a", "d", " ">> \o rest)

\* rule_failed without the verb list: always "X failed"
rule_failed_no_verbs(chinese_text, context_key) ==
  LET base == dropLast(chinese_text, 2)
      base_trans == translate_text(base, context_key)
  IN  IF inTRANSLATIONS(base) THEN Some(TRANSLATIONS(base) \o <<" ", "f", "a", "i", "l", "e", "d">>)
      ELSE IF truthy(base_trans) THEN Some(base_trans.s \o <<" ", "f", "a", "i", "l", "e", "d">>)
      ELSE Some(base \o <<" ", "f", "a", "i", "l", "e", "d">>)

\* "X失败" -> "Failed to x" for the listed verbs, else "X failed"
rule_failed(chinese_text, context_key) ==
  LET base == dropLast(chinese_text, 2)
      trans == TRANSLATIONS(base)
      base_trans == translate_text(base, context_key)
  IN  IF inTRANSLATIONS(base)
      THEN IF trans \in {<<"L", "o", "a", "d">>, <<"S", "a", "v", "e">>, <<"D", "e", "l", "e", "t", "e">>, <<"A", "d", "d">>, <<"E", "d", "i", "t">>, <<"U", "p", "d", "a", "t", "e">>, <<"C", "r", "e", "a", "t", "e">>, <<"I", "m", "p", "o", "r", "t">>, <<"E", "x", "p", "o", "r", "t">>}
           THEN Some(<<"F", "a", "i", "l", "e", "d", " ", "t", "o", " ">> \o lower(trans))
           ELSE Some(trans \o <<" ", "f", "a", "i", "l", "e", "d">>)
      ELSE IF truthy(base_trans) THEN Some(base_trans.s \o <<" ", "f", "a", "i", "l", "e", "d">>)
      ELSE Some(base \o <<" ", "f", "a", "i", "l", "e", "d">>)

\* "X成功" -> "X successful": dictionary, else recursion, else the raw base
rule_successful(chinese_text, context_key) ==
  LET base == dropLast(chinese_text, 2)
      base_trans == translate_text(base, context_key)
  IN  IF inTRANSLATIONS(base) THEN Some(TRANSLATIONS(base) \o <<" ", "s", "u", "c", "c", "e", "s", "s", "f", "u", "l">>)
      ELSE IF truthy(base_trans) THEN Some(base_trans.s \o <<" ", "s", "u", "c", "c", "e", "s", "s", "f", "u", "l">>)
      ELSE Some(base \o <<" ", "s", "u", "c", "c", "e", "s", "s", "f", "u", "l">>)

\* rule_already that passes every dictionary word through, the listed verbs too
rule_already_bare(chinese_text, context_key) ==
  LET rest == dropFirst(chinese_text, 1)
  IN  IF inTRANSLATIONS(rest) THEN Some(TRANSLATIONS(rest)) ELSE Some(rest)

\* "已X": the listed verbs get a "d" appended (both branches of the
\* conditional expression are trans + "d"), other dictionary words pass
\* through, and a rest that is no dictionary key is returned raw
rule_already(chinese_text, context_key) ==
  LET rest == dropFirst(chinese_text, 1)
      trans == TRANSLATIONS(rest)
  IN  IF inTRANSLATIONS(rest)
      THEN IF trans \in {<<"A", "r", "c", "h", "i", "v", "e">>, <<"D", "e", "l", "e", "t", "e">>, <<"A", "d", "d">>, <<"E", "d", "i", "t">>, <<"S", "a", "v", "e">>, <<"L", "o", "a", "d">>, <<"C", "o", "p", "y">>, <<"E", "x", "p", "o", "r", "t">>}
           THEN IF ~endswith(trans, <<"e">>) THEN Some(trans \o <<"d">>) ELSE Some(trans \o <<"d">>)
           ELSE Some(trans)
      ELSE Some(rest)

\* "X中" -> "Xing" for the listed verbs, else "X in progress", raw base + "ing"
rule_in_progress(chinese_text, context_key) ==
  LET base == dropLast(chinese_text, 1)
      trans == TRANSLATIONS(base)
  IN  IF inTRANSLATIONS(base)
      THEN IF trans \in {<<"L", "o", "a", "d">>, <<"S", "a", "v", "e">>, <<"A", "d", "d">>, <<"E", "d", "i", "t">>, <<"C", "r", "e", "a", "t", "e">>, <<"E", "x", "p", "o", "r", "t">>, <<"I", "n", "s", "t", "a", "l", "l">>}
           THEN IF ~endswith(trans, <<"e">>) THEN Some(trans \o <<"i", "n", "g">>)
                ELSE Some(dropLast(trans, 1) \o <<"i", "n", "g">>)
           ELSE Some(trans \o <<" ", "i", "n", " ", "p", "r", "o", "g", "r", "e", "s", "s">>)
      ELSE Some(base \o <<"i", "n", "g">>)

\* "未X" -> "Not x", "未使用" -> "Unused"
rule_not(chinese_text, context_key) ==
  LET rest == dropFirst(chinese_text, 1)
  IN  IF inTRANSLATIONS(rest) THEN Some(<<"N", "o", "t", " ">> \o lower(TRANSLATIONS(rest)))
      ELSE IF rest = <<"shi3", "yong">> THEN Some(<<"U", "n", "u", "s", "e", "d">>)
      ELSE Some(<<"N", "o", "t", " ">> \o rest)

\* rule_please without the nested call: a rest that is no key is used as it is
rule_please_raw(chinese_text, context_key) ==
  LET rest == dropFirst(chinese_text, 1)
  IN  IF inTRANSLATIONS(rest) THEN Some(<<"P", "l", "e", "a", "s", "e", " ">> \o lower(TRANSLATIONS(rest)))
      ELSE Some(<<"P", "l", "e", "a", "s", "e", " ">> \o rest)

\* "请X" -> "Please X": dictionary, else recursion, else the raw rest
rule_please(chinese_text, context_key) ==
  LET rest == dropFirst(chinese_text, 1)
      rest_trans == translate_text(rest, context_key)
  IN  IF inTRANSLATIONS(rest) THEN Some(<<"P", "l", "e", "a", "s", "e", " ">> \o lower(TRANSLATIONS(rest)))
      ELSE IF truthy(rest_trans) THEN Some(<<"P", "l", "e", "a", "s", "e", " ">> \o lower(rest_trans.s))
      ELSE Some(<<"P", "l", "e", "a", "s", "e", " ">> \o rest)

\* "暂无X" -> "No X": dictionary, else the raw rest
rule_none_available(chinese_text, context_key) ==
  LET rest == dropFirst(chinese_text, 2)
  IN  IF inTRANSLATIONS(rest) THEN Some(<<"N", "o", " ">> \o lower(TRANSLATIONS(rest)))
      ELSE Some(<<"N", "o", " ">> \o rest)

\* "X列表" -> "X list": dictionary, else recursion, else the raw base
rule_list(chinese_text, context_key) ==
  LET base == dropLast(chinese_text, 2)
      base_trans == translate_text(base, context_key)
  IN  IF inTRANSLATIONS(base) THEN Some(TRANSLATIONS(base) \o <<" ", "l", "i", "s", "t">>)
      ELSE IF truthy(base_trans) THEN Some(base_trans.s \o <<" ", "l", "i", "s", "t">>)
      ELSE Some(base \o <<" ", "l", "i", "s", "t">>)

\* "X设置" -> "X settings": dictionary, else recursion, else the raw base
rule_settings(chinese_text, context_key) ==
  LET base == dropLast(chinese_text, 2)
      base_trans == translate_text(base, context_key)
  IN  IF inTRANSLATIONS(base) THEN Some(TRANSLATIONS(base) \o <<" ", "s", "e", "t", "t", "i", "n", "g", "s">>)
      ELSE IF truthy(base_trans) THEN Some(base_trans.s \o <<" ", "s", "e", "t", "t", "i", "n", "g", "s">>)
      ELSE Some(base \o <<" ", "s", "e", "t", "t", "i", "n", "g", "s">>)

\* "X模式" -> "X mode": dictionary, else the raw base
rule_mode(chinese_text, context_key) ==
  LET base == dropLast(chinese_text, 2)
  IN  IF inTRANSLATIONS(base) THEN Some(TRANSLATIONS(base) \o <<" ", "m", "o", "d", "e">>)
      ELSE Some(base \o <<" ", "m", "o", "d", "e">>)

\* "X类型" -> "X type": dictionary, else the raw base
rule_type(chinese_text, context_key) ==
  LET base == dropLast(chinese_text, 2)
  IN  IF inTRANSLATIONS(base) THEN Some(TRANSLATIONS(base) \o <<" ", "t", "y", "p", "e">>)
      ELSE Some(base \o <<" ", "t", "y", "p", "e">>)

\* "X文件" -> "X file": dictionary, else recursion, else the raw base
rule_file(chinese_text, context_key) ==
  LET base == dropLast(chinese_text, 2)
      base_trans == translate_text(base, context_key)
  IN  IF inTRANSLATIONS(base) THEN Some(TRANSLATIONS(base) \o <<" ", "f", "i", "l", "e">>)
      ELSE IF truthy(base_trans) THEN Some(base_trans.s \o <<" ", "f", "i", "l", "e">>)
      ELSE Some(base \o <<" ", "f", "i", "l", "e">>)

\* "X选择器" -> "X selector": dictionary, else the raw base
rule_selector(chinese_text, context_key) ==
  LET base == dropLast(chinese_text, 3)
  IN  IF inTRANSLATIONS(base) THEN Some(TRANSLATIONS(base) \o <<" ", "s", "e", "l", "e", "c", "t", "o", "r">>)
      ELSE Some(base \o <<" ", "s", "e", "l", "e", "c", "t", "o", "r">>)

\* "X字段" -> "X field": dictionary, else the raw base
rule_field(chinese_text, context_key) ==
  LET base == dropLast(chinese_text, 2)
  IN  IF inTRANSLATIONS(base) THEN Some(TRANSLATIONS(base) \o <<" ", "f", "i", "e", "l", "d">>)
      ELSE Some(base \o <<" ", "f", "i", "e", "l", "d">>)

\* "X路径" -> "X path": dictionary, else recursion, else the raw base
rule_path(chinese_text, context_key) ==
  LET base == dropLast(chinese_text, 2)
      base_trans == translate_text(base, context_key)
  IN  IF inTRANSLATIONS(base) THEN Some(TRANSLATIONS(base) \o <<" ", "p", "a", "t", "h">>)
      ELSE IF truthy(base_trans) THEN Some(base_trans.s \o <<" ", "p", "a", "t", "h">>)
      ELSE Some(base \o <<" ", "p", "a", "t", "h">>)

\* "选择X" -> "Select X": dictionary, else recursion, else the raw rest
rule_select(chinese_text, context_key) ==
  LET rest == dropFirst(chinese_text, 2)
      rest_trans == translate_text(rest, context_key)
  IN  IF inTRANSLATIONS(rest) THEN Some(<<"S", "e", "l", "e", "c", "t", " ">> \o lower(TRANSLATIONS(rest)))
      ELSE IF truthy(rest_trans) THEN Some(<<"S", "e", "l", "e", "c", "t", " ">> \o lower(rest_trans.s))
      ELSE Some(<<"S", "e", "l", "e", "c", "t", " ">> \o rest)

\* "打开X" -> "Open X": dictionary, else recursion, else the raw rest
rule_open(chinese_text, context_key) ==
  LET rest == dropFirst(chinese_text, 2)
      rest_trans == translate_text(rest, context_key)
  IN  IF inTRANSLATIONS(rest) THEN Some(<<"O", "p", "e", "n", " ">> \o lower(TRANSLATIONS(rest)))
      ELSE IF truthy(rest_trans) THEN Some(<<"O", "p", "e", "n", " ">> \o lower(rest_trans.s))
      ELSE Some(<<"O", "p", "e", "n", " ">> \o rest)

\* "X名称" -> "X name": dictionary, else recursion, else the raw base
rule_name(chinese_text, context_key) ==
  LET base == dropLast(chinese_text, 2)
      base_trans == translate_text(base, context_key)
  IN  IF inTRANSLATIONS(base) THEN Some(TRANSLATIONS(base) \o <<" ", "n", "a", "m", "e">>)
      ELSE IF truthy(base_trans) THEN Some(base_trans.s \o <<" ", "n", "a", "m", "e">>)
      ELSE Some(base \o <<" ", "n", "a", "m", "e">>)

\* "X信息" -> "X information": dictionary, else recursion, else the raw base
rule_information(chinese_text, context_key) ==
  LET base == dropLast(chinese_text, 2)
      base_trans == translate_text(base, context_key)
  IN  IF inTRANSLATIONS(base) THEN Some(TRANSLATIONS(base) \o <<" ", "i", "n", "f", "o", "r", "m", "a", "t", "i", "o", "n">>)
      ELSE IF truthy(base_trans) THEN Some(base_trans.s \o <<" ", "i", "n", "f", "o", "r", "m", "a", "t", "i", "o", "n">>)
      ELSE Some(base \o <<" ", "i", "n", "f", "o", "r", "m", "a", "t", "i", "o", "n">>)

\* "X错误" -> "X error": dictionary, else the raw base
rule_error(chinese_text, context_key) ==
  LET base == dropLast(chinese_text, 2)
  IN  IF inTRANSLATIONS(base) THEN Some(TRANSLATIONS(base) \o <<" ", "e", "r", "r", "o", "r">>)
      ELSE Some(base \o <<" ", "e", "r", "r", "o", "r">>)

\* "X包" -> "X package": dictionary, else the raw base
rule_package(chinese_text, context_key) ==
  LET base == dropLast(chinese_text, 1)
  IN  IF inTRANSLATIONS(base) THEN Some(TRANSLATIONS(base) \o <<" ", "p", "a", "c", "k", "a", "g", "e">>)
      ELSE Some(base \o <<" ", "p", "a", "c", "k", "a", "g", "e">>)

\* "X目录" -> "X directory": dictionary, else recursion, else the raw base
rule_directory(chinese_text, context_key) ==
  LET base == dropLast(chinese_text, 2)
      base_trans == translate_text(base, context_key)
  IN  IF inTRANSLATIONS(base) THEN Some(TRANSLATIONS(base) \o <<" ", "d", "i", "r", "e", "c", "t", "o", "r", "y">>)
      ELSE IF truthy(base_trans) THEN Some(base_trans.s \o <<" ", "d", "i", "r", "e", "c", "t", "o", "r", "y">>)
      ELSE Some(base \o <<" ", "d", "i", "r", "e", "c", "t", "o", "r", "y">>)

\* "启用X" -> "Enable X": dictionary, else recursion, else the raw rest
rule_enable(chinese_text, context_key) ==
  LET rest == dropFirst(chinese_text, 2)
      rest_trans == translate_text(rest, context_key)
  IN  IF inTRANSLATIONS(rest) THEN Some(<<"E", "n", "a", "b", "l", "e", " ">> \o lower(TRANSLATIONS(rest)))
      ELSE IF truthy(rest_trans) THEN Some(<<"E", "n", "a", "b", "l", "e", " ">> \o lower(rest_trans.s))
      ELSE Some(<<"E", "n", "a", "b", "l", "e", " ">> \o rest)

\* "禁用X" -> "Disable X": dictionary, else recursion, else the raw rest
rule_disable(chinese_text, context_key) ==
  LET rest == dropFirst(chinese_text, 2)
      rest_trans == translate_text(rest, context_key)
  IN  IF inTRANSLATIONS(rest) THEN Some(<<"D", "i", "s", "a", "b", "l", "e", " ">> \o lower(TRANSLATIONS(rest)))
      ELSE IF truthy(rest_trans) THEN Some(<<"D", "i", "s", "a", "b", "l", "e", " ">> \o lower(rest_trans.s))
      ELSE Some(<<"D", "i", "s", "a", "b", "l", "e", " ">> \o rest)

\* rule_possessive with the one template "Y of X" for every right side
rule_possessive_of_only(chinese_text, context_key) ==
  LET parts == split1(chinese_text, <<"de">>)
      left == parts[1]
      right == parts[2]
      l == translate_text(left, context_key)
      r == translate_text(right, context_key)
      left_trans == IF truthy(l) THEN l.s ELSE TRANSLATIONS_get(left, left)
      right_trans == IF truthy(r) THEN r.s ELSE TRANSLATIONS_get(right, right)
  IN  Some(right_trans \o <<" ", "o", "f", " ">> \o left_trans)

\* "X的Y" -> "Y of X" for the listed nouns Y, else "X's Y": split at the first "的"
rule_possessive(chinese_text, context_key) ==
  LET parts == split1(chinese_text, <<"de">>)
      left == parts[1]
      right == parts[2]
      l == translate_text(left, context_key)
      r == translate_text(right, context_key)
      left_trans == IF truthy(l) THEN l.s ELSE TRANSLATIONS_get(left, left)
      right_trans == IF truthy(r) THEN r.s ELSE TRANSLATIONS_get(right, right)
  IN  IF right \in {<<"zhi2">>, <<"nei", "rong">>, <<"pei", "zhi">>, <<"she", "zhi">>, <<"xin", "xi">>, <<"zhuang", "tai">>, <<"ming", "cheng1">>, <<"lei", "xing">>, <<"lie", "biao">>, <<"wen", "jian4">>}
      THEN Some(right_trans \o <<" ", "o", "f", " ">> \o left_trans)
      ELSE Some(left_trans \o <<"'", "s", " ">> \o right_trans)

\* rule_and joining the sides in the order of the "后" rule
rule_and_swapped(chinese_text, context_key) ==
  LET parts == split1(chinese_text, <<"he">>)
      left == parts[1]
      right == parts[2]
      l == translate_text(left, context_key)
      r == translate_text(right, context_key)
      left_trans == IF truthy(l) THEN l.s ELSE TRANSLATIONS_get(left, left)
      right_trans == IF truthy(r) THEN r.s ELSE TRANSLATIONS_get(right, right)
  IN  Some(right_trans \o <<" ", "a", "n", "d", " ">> \o left_trans)

\* "X和Y" -> "X and Y": split at the first "和"
rule_and(chinese_text, context_key) ==
  LET parts == split1(chinese_text, <<"he">>)
      left == parts[1]
      right == parts[2]
      l == translate_text(left, context_key)
      r == translate_text(right, context_key)
      left_trans == IF truthy(l) THEN l.s ELSE TRANSLATIONS_get(left, left)
      right_trans == IF truthy(r) THEN r.s ELSE TRANSLATIONS_get(right, right)
  IN  Some(left_trans \o <<" ", "a", "n", "d", " ">> \o right_trans)

\* "X或Y" -> "X or Y": split at the first "或"
rule_or(chinese_text, context_key) ==
  LET parts == split1(chinese_text, <<"huo">>)
      left == parts[1]
      right == parts[2]
      l == translate_text(left, context_key)
      r == translate_text(right, context_key)
      left_trans == IF truthy(l) THEN l.s ELSE TRANSLATIONS_get(left, left)
      right_trans == IF truthy(r) THEN r.s ELSE TRANSLATIONS_get(right, right)
  IN  Some(left_trans \o <<" ", "o", "r", " ">> \o right_trans)

\* rule_after that splits at the last "后" (rsplit)
rule_after_last(chinese_text, context_key) ==
  LET sep == <<"hou">>
      hits == {i \in 1..Len(chinese_text) : SubSeq(chinese_text, i, i) = sep}
      p == CHOOSE i \in hits : \A j \in hits : j <= i
      left == SubSeq(chinese_text, 1, p - 1)
      right == SubSeq(chinese_text, p + 1, Len(chinese_text))
      l == translate_text(left, context_key)
      r == translate_text(right, context_key)
      left_trans == IF truthy(l) THEN l.s ELSE TRANSLATIONS_get(left, left)
      right_trans == IF truthy(r) THEN r.s ELSE TRANSLATIONS_get(right, right)
  IN  Some(right_trans \o <<" ", "a", "f", "t", "e", "r", " ">> \o left_trans)

\* "X后Y" -> "Y after X": split at the first "后"
rule_after(chinese_text, context_key) ==
  LET parts == split1(chinese_text, <<"hou">>)
      left == parts[1]
      right == parts[2]
      l == translate_text(left, context_key)
      r == translate_text(right, context_key)
      left_trans == IF truthy(l) THEN l.s ELSE TRANSLATIONS_get(left, left)
      right_trans == IF truthy(r) THEN r.s ELSE TRANSLATIONS_get(right, right)
  IN  Some(right_trans \o <<" ", "a", "f", "t", "e", "r", " ">> \o left_trans)

\* "X中Y" -> "Y in X": split at the first "中"
rule_in(chinese_text, context_key) ==
  LET parts == split1(chinese_text, <<"zhong">>)
      left == parts[1]
      right == parts[2]
      l == translate_text(left, context_key)
      r == translate_text(right, context_key)
      left_trans == IF truthy(l) THEN l.s ELSE TRANSLATIONS_get(left, left)
      right_trans == IF truthy(r) THEN r.s ELSE TRANSLATIONS_get(right, right)
  IN  Some(right_trans \o <<" ", "i", "n", " ">> \o left_trans)

\* pattern_rules with the five particle rules tried before the affix rules
pattern_rules_particles_first(chinese_text, context_key) ==
  IF contains(chinese_text, <<"de">>)
    THEN rule_possessive(chinese_text, context_key)
  ELSE IF contains(chinese_text, <<"he">>)
    THEN rule_and(chinese_text, context_key)
  ELSE IF contains(chinese_text, <<"huo">>)
    THEN rule_or(chinese_text, context_key)
  ELSE IF contains(chinese_text, <<"hou">>) /\ ~endswith(chinese_text, <<"hou">>)
    THEN rule_after(chinese_text, context_key)
  ELSE IF contains(chinese_text, <<"zhong">>) /\ ~endswith(chinese_text, <<"zhong">>)
    THEN rule_in(chinese_text, context_key)
  ELSE IF startswith(chinese_text, <<"jia", "zai">>)
    THEN rule_load(chinese_text, context_key)
  ELSE IF endswith(chinese_text, <<"shi", "bai">>)
    THEN rule_failed(chinese_text, context_key)
  ELSE IF endswith(chinese_text, <<"cheng", "gong">>)
    THEN rule_successful(chinese_text, context_key)
  ELSE IF startswith(chinese_text, <<"yi">>)
    THEN rule_already(chinese_text, context_key)
  ELSE IF endswith(chinese_text, <<"zhong">>)
    THEN rule_in_progress(chinese_text, context_key)
  ELSE IF startswith(chinese_text, <<"wei">>)
    THEN rule_not(chinese_text, context_key)
  ELSE IF startswith(chinese_text, <<"qing">>)
    THEN rule_please(chinese_text, context_key)
  ELSE IF startswith(chinese_text, <<"zan", "wu">>)
    THEN rule_none_available(chinese_text, context_key)
  ELSE IF endswith(chinese_text, <<"lie", "biao">>)
    THEN rule_list(chinese_text, context_key)
  ELSE IF endswith(chinese_text, <<"she", "zhi">>)
    THEN rule_settings(chinese_text, context_key)
  ELSE IF endswith(chinese_text, <<"mo", "shi4">>)
    THEN rule_mode(chinese_text, context_key)
  ELSE IF endswith(chinese_text, <<"lei", "xing">>)
    THEN rule_type(chinese_text, context_key)
  ELSE IF endswith(chinese_text, <<"wen", "jian4">>)
    THEN rule_file(chinese_text, context_key)
  ELSE IF endswith(chinese_text, <<"xuan", "ze", "qi4">>)
    THEN rule_selector(chinese_text, context_key)
  ELSE IF endswith(chinese_text, <<"zi", "duan">>)
    THEN rule_field(chinese_text, context_key)
  ELSE IF endswith(chinese_text, <<"lu", "jing">>)
    THEN rule_path(chinese_text, context_key)
  ELSE IF startswith(chinese_text, <<"xuan", "ze">>)
    THEN rule_select(chinese_text, context_key)
  ELSE IF startswith(chinese_text, <<"da", "kai">>)
    THEN rule_open(chinese_text, context_key)
  ELSE IF endswith(chinese_text, <<"ming", "cheng1">>)
    THEN rule_name(chinese_text, context_key)
  ELSE IF endswith(chinese_text, <<"xin", "xi">>)
    THEN rule_information(chinese_text, context_key)
  ELSE IF endswith(chinese_text, <<"cuo", "wu4">>)
    THEN rule_error(chinese_text, context_key)
  ELSE IF endswith(chinese_text, <<"bao1">>)
    THEN rule_package(chinese_text, context_key)
  ELSE IF endswith(chinese_text, <<"mu", "lu4">>)
    THEN rule_directory(chinese_text, context_key)
  ELSE IF startswith(chinese_text, <<"qi3", "yong">>)
    THEN rule_enable(chinese_text, context_key)
  ELSE IF startswith(chinese_text, <<"jin", "yong">>)
    THEN rule_disable(chinese_text, context_key)
  ELSE None

\* the if-blocks after the direct match, in the order of the source: the first
\* block whose test holds returns; None when none does
pattern_rules(chinese_text, context_key) ==
  IF startswith(chinese_text, <<"jia", "zai">>)
    THEN rule_load(chinese_text, context_key)
  ELSE IF endswith(chinese_text, <<"shi", "bai">>)
    THEN rule_failed(chinese_text, context_key)
  ELSE IF endswith(chinese_text, <<"cheng", "gong">>)
    THEN rule_successful(chinese_text, context_key)
  ELSE IF startswith(chinese_text, <<"yi">>)
    THEN rule_already(chinese_text, context_key)
  ELSE IF endswith(chinese_text, <<"zhong">>)
    THEN rule_in_progress(chinese_text, context_key)
  ELSE IF startswith(chinese_text, <<"wei">>)
    THEN rule_not(chinese_text, context_key)
  ELSE IF startswith(chinese_text, <<"qing">>)
    THEN rule_please(chinese_text, context_key)
  ELSE IF startswith(chinese_text, <<"zan", "wu">>)
    THEN rule_none_available(chinese_text, context_key)
  ELSE IF endswith(chinese_text, <<"lie", "biao">>)
    THEN rule_list(chinese_text, context_key)
  ELSE IF endswith(chinese_text, <<"she", "zhi">>)
    THEN rule_settings(chinese_text, context_key)
  ELSE IF endswith(chinese_text, <<"mo", "shi4">>)
    THEN rule_mode(chinese_text, context_key)
  ELSE IF endswith(chinese_text, <<"lei", "xing">>)
    THEN rule_type(chinese_text, context_key)
  ELSE IF endswith(chinese_text, <<"wen", "jian4">>)
    THEN rule_file(chinese_text, context_key)
  ELSE IF endswith(chinese_text, <<"xuan", "ze", "qi4">>)
    THEN rule_selector(chinese_text, context_key)
  ELSE IF endswith(chinese_text, <<"zi", "duan">>)
    THEN rule_field(chinese_text, context_key)
  ELSE IF endswith(chinese_text, <<"lu", "jing">>)
    THEN rule_path(chinese_text, context_key)
  ELSE IF startswith(chinese_text, <<"xuan", "ze">>)
    THEN rule_select(chinese_text, context_key)
  ELSE IF startswith(chinese_text, <<"da", "kai">>)
    THEN rule_open(chinese_text, context_key)
  ELSE IF endswith(chinese_text, <<"ming", "cheng1">>)
    THEN rule_name(chinese_text, context_key)
  ELSE IF endswith(chinese_text, <<"xin", "xi">>)
    THEN rule_information(chinese_text, context_key)
  ELSE IF endswith(chinese_text, <<"cuo", "wu4">>)
    THEN rule_error(chinese_text, context_key)
  ELSE IF endswith(chinese_text, <<"bao1">>)
    THEN rule_package(chinese_text, context_key)
  ELSE IF endswith(chinese_text, <<"mu", "lu4">>)
    THEN rule_directory(chinese_text, context_key)
  ELSE IF startswith(chinese_text, <<"qi3", "yong">>)
    THEN rule_enable(chinese_text, context_key)
  ELSE IF startswith(chinese_text, <<"jin", "yong">>)
    THEN rule_disable(chinese_text, context_key)
  ELSE IF contains(chinese_text, <<"de">>)
    THEN rule_possessive(chinese_text, context_key)
  ELSE IF contains(chinese_text, <<"he">>)
    THEN rule_and(chinese_text, context_key)
  ELSE IF contains(chinese_text, <<"huo">>)
    THEN rule_or(chinese_text, context_key)
  ELSE IF contains(chinese_text, <<"hou">>) /\ ~endswith(chinese_text, <<"hou">>)
    THEN rule_after(chinese_text, context_key)
  ELSE IF contains(chinese_text, <<"zhong">>) /\ ~endswith(chinese_text, <<"zhong">>)
    THEN rule_in(chinese_text, context_key)
  ELSE None

\* translate_text with the direct match tried after the pattern rules
translate_text_rules_first(chinese_text, context_key) ==
  LET r == pattern_rules(chinese_text, context_key)
  IN  IF ~r.none THEN r
      ELSE IF inTRANSLATIONS(chinese_text) THEN Some(TRANSLATIONS(chinese_text))
      ELSE None

\* translate_text(chinese_text, context_key): the direct match comes first
translate_text(chinese_text, context_key) ==
  IF inTRANSLATIONS(chinese_text) THEN Some(TRANSLATIONS(chinese_text))
  ELSE pattern_rules(chinese_text, context_key)

----------------------------------------------------------------------------
\* Catalog and side artifact

\* the key of the i-th entry: the first key opens a section ('// === 1'),
\* the others are message keys ('k2', 'k3')
KeyOf(i) ==
  IF i = 1 THEN <<"/", "/", " ", "=", "=", "=", " ", ToString(i)>> ELSE <<"k", ToString(i)>>

\* data.items() in order: the entries of a catalog with the given values
Catalog(values) == [i \in 1..Len(values) |-> [key |-> KeyOf(i), value |-> values[i]]]

\* d[k] = v on a Python dict
dict_set(d, k, v) == [x \in (DOMAIN d) \cup {k} |-> IF x = k THEN v ELSE d[x]]

\* {}
EmptyDict == [x \in {} |-> <<>>]

\* json: json.load accepts the text of the file
NoFile == [exists |-> FALSE, map |-> EmptyDict, json |-> TRUE]

File(map) == [exists |-> TRUE, map |-> map, json |-> TRUE]

\* translations-remaining.json holding a text json.load rejects
MalformedSide == [exists |-> TRUE, map |-> EmptyDict, json |-> FALSE]

\* en.json holding a part of the text json.dump writes (the file is opened
\* with 'w', which empties it, and the text is written piece by piece): no
\* proper prefix of the text of a JSON object is one, json.load rejects it
Truncated == <<[key |-> <<"{">>, value |-> NonStr(<<>>)]>>

\* en.json just emptied by open(..., 'w'), before json.dump wrote anything
Emptied == <<[key |-> <<>>, value |-> NonStr(<<>>)]>>

\* en.json holding the text of a catalog followed by the rest of a longer
\* text that was in the file before: json.load rejects it ("Extra data")
Garbled == <<[key |-> <<"}">>, value |-> NonStr(<<>>)]>>

\* json.load accepts the text of en.json
IsJson(f) == f \notin {Truncated, Emptied, Garbled}

----------------------------------------------------------------------------
\* extract_remaining_todos.py

ExtIdle == [pc |-> "idle", data |-> <<>>, todos |-> EmptyDict, found |-> 0,
            seen |-> <<>>, before |-> <<>>, sideBefore |-> NoFile, error |-> ""]

\* the test of the extraction loop
ext_is_todo(value) == isinstance_str(value) /\ startswith(value.s, MARKER)

\* the source text the extraction loop computes
ext_chinese(value) == replace(value.s, MARKER_SP, <<>>)

\* the loop over data.items(), entries i..Len(data), from the todos so far
RECURSIVE ext_loop(_, _, _)
ext_loop(data, i, todos) ==
  IF i > Len(data) THEN todos
  ELSE IF ext_is_todo(data[i].value)
       THEN ext_loop(data, i + 1, dict_set(todos, ext_chinese(data[i].value), <<>>))
       ELSE ext_loop(data, i + 1, todos)

\* history: what the loop did with each entry
ext_seen(data) ==
  [i \in 1..Len(data) |->
     [hit |-> ext_is_todo(data[i].value),
      chinese |-> IF ext_is_todo(data[i].value) THEN ext_chinese(data[i].value) ELSE <<>>]]

\* json.load of en.json; a text that is no JSON ends the process with
\* JSONDecodeError
ExtractLoad ==
  /\ ext.pc = "idle"
  /\ IF ~IsJson(catalogFile)
     THEN /\ ext' = [ExtIdle EXCEPT !.pc = "crashed", !.error = "JSONDecodeError",
                                    !.before = catalogFile, !.sideBefore = sideFile]
          /\ hist' = Append(hist, "extract_crashed")
     ELSE /\ ext' = [ExtIdle EXCEPT !.pc = "loaded", !.data = catalogFile,
                                    !.before = catalogFile, !.sideBefore = sideFile]
          /\ hist' = hist
  /\ runs' = runs + 1
  /\ UNCHANGED <<catalogFile, sideFile, imp, tr, txt, res>>

\* todos = {} and the loop; "Found N entries to translate"
ExtractScan ==
  /\ ext.pc = "loaded"
  /\ LET todos == ext_loop(ext.data, 1, EmptyDict)
     IN  ext' = [ext EXCEPT !.pc = "scanned", !.todos = todos,
                            !.found = Cardinality(DOMAIN todos),
                            !.seen = ext_seen(ext.data)]
  /\ UNCHANGED <<catalogFile, sideFile, imp, tr, runs, hist, txt, res>>

\* json.dump(todos) over translations-remaining.json
ExtractSave ==
  /\ ext.pc = "scanned"
  /\ sideFile' = File(ext.todos)
  /\ ext' = [ext EXCEPT !.pc = "done"]
  /\ hist' = Append(hist, "extract")
  /\ UNCHANGED <<catalogFile, imp, tr, runs, txt, res>>

\* the process ends
ExtractExit ==
  /\ ext.pc \in {"done", "crashed"}
  /\ ext' = ExtIdle
  /\ UNCHANGED <<catalogFile, sideFile, imp, tr, runs, hist, txt, res>>

----------------------------------------------------------------------------
\* import_translations.py

\* reads, writes: how often the invocation opened en.json to read, to write;
\* read: the catalog json.load returned
ImpIdle == [pc |-> "idle", translations |-> EmptyDict, data |-> <<>>, count |-> 0,
            exit |-> 0, seen |-> <<>>, before |-> <<>>, sideBefore |-> NoFile,
            reads |-> 0, writes |-> 0, error |-> "", read |-> <<>>]

\* the test of the apply loop
imp_is_todo(value) == isinstance_str(value) /\ startswith(value.s, MARKER)

\* imp_chinese that strips the marker without the space that follows it
imp_chinese_marker_only(value) == replace(value.s, MARKER, <<>>)

\* the source text the apply loop computes
imp_chinese(value) == replace(value.s, MARKER_SP, <<>>)

\* chinese in translations and translations[chinese]
imp_has_translation(translations, chinese) ==
  chinese \in DOMAIN translations /\ translations[chinese] # <<>>

\* one pass of the loop body: the value data[key] holds afterwards
imp_entry(translations, value) ==
  IF imp_is_todo(value) /\ imp_has_translation(translations, imp_chinese(value))
  THEN Str(translations[imp_chinese(value)])
  ELSE value

\* imp_loop that uses each translation once, for the first entry that asks for it
imp_loop_first_only(translations, data) ==
  [i \in 1..Len(data) |->
     [key |-> data[i].key,
      value |-> IF \E j \in 1..(i - 1) :
                     /\ imp_is_todo(data[j].value) /\ imp_is_todo(data[i].value)
                     /\ imp_chinese(data[j].value) = imp_chinese(data[i].value)
                THEN data[i].value
                ELSE imp_entry(translations, data[i].value)]]

\* the loop over data.items(): every key keeps its place
imp_loop(translations, data) ==
  [i \in 1..Len(data) |-> [key |-> data[i].key, value |-> imp_entry(translations, data[i].value)]]

\* count after the loop
imp_count(translations, data) ==
  Cardinality({i \in 1..Len(data) :
                 /\ imp_is_todo(data[i].value)
                 /\ imp_has_translation(translations, imp_chinese(data[i].value))})

\* history: what the loop did with each entry
imp_seen(data) ==
  [i \in 1..Len(data) |->
     [hit |-> imp_is_todo(data[i].value),
      chinese |-> IF imp_is_todo(data[i].value) THEN imp_chinese(data[i].value) ELSE <<>>]]

\* ImportCheck without the exit: a missing side artifact ends the run quietly
ImportCheck_silent ==
  /\ imp.pc = "idle"
  /\ IF sideFile.exists
     THEN imp' = [ImpIdle EXCEPT !.pc = "checked", !.before = catalogFile, !.sideBefore = sideFile]
     ELSE imp' = [ImpIdle EXCEPT !.pc = "done", !.before = catalogFile, !.sideBefore = sideFile]
  /\ runs' = runs + 1
  /\ hist' = IF sideFile.exists THEN hist ELSE Append(hist, "import")
  /\ UNCHANGED <<catalogFile, sideFile, ext, tr, txt, res>>

\* if not INPUT_FILE.exists(): print the instruction, exit(1)
ImportCheck ==
  /\ imp.pc = "idle"
  /\ IF sideFile.exists
     THEN imp' = [ImpIdle EXCEPT !.pc = "checked", !.before = catalogFile, !.sideBefore = sideFile]
     ELSE imp' = [ImpIdle EXCEPT !.pc = "failed", !.exit = 1,
                                 !.before = catalogFile, !.sideBefore = sideFile]
  /\ runs' = runs + 1
  /\ hist' = IF sideFile.exists THEN hist ELSE Append(hist, "import_failed")
  /\ UNCHANGED <<catalogFile, sideFile, ext, tr, txt, res>>

\* json.load of translations-remaining.json; a text that is no JSON ends the
\* process with JSONDecodeError
ImportLoadTranslations ==
  /\ imp.pc = "checked"
  /\ sideFile.exists
  /\ IF sideFile.json
     THEN /\ imp' = [imp EXCEPT !.pc = "have_translations", !.translations = sideFile.map]
          /\ hist' = hist
     ELSE /\ imp' = [imp EXCEPT !.pc = "crashed", !.exit = 1, !.error = "JSONDecodeError"]
          /\ hist' = Append(hist, "import_crashed")
  /\ UNCHANGED <<catalogFile, sideFile, ext, tr, runs, txt, res>>

\* json.load of en.json; a text that is no JSON ends the process with
\* JSONDecodeError
ImportLoadCatalog ==
  /\ imp.pc = "have_translations"
  /\ IF ~IsJson(catalogFile)
     THEN /\ imp' = [imp EXCEPT !.pc = "crashed", !.exit = 1, !.error = "JSONDecodeError",
                                !.reads = @ + 1]
          /\ hist' = Append(hist, "import_crashed")
     ELSE /\ imp' = [imp EXCEPT !.pc = "loaded", !.data = catalogFile, !.reads = @ + 1,
                                !.read = catalogFile]
          /\ hist' = hist
  /\ UNCHANGED <<catalogFile, sideFile, ext, tr, runs, txt, res>>

\* the apply loop; "Applied N translations"
ImportApply ==
  /\ imp.pc = "loaded"
  /\ imp' = [imp EXCEPT !.pc = "applied",
                        !.data = imp_loop(imp.translations, imp.data),
                        !.count = imp_count(imp.translations, imp.data),
                        !.seen = imp_seen(imp.data)]
  /\ UNCHANGED <<catalogFile, sideFile, ext, tr, runs, hist, txt, res>>

\* ImportSave that removes translations-remaining.json once it is applied
ImportSave_removes_side ==
  /\ imp.pc = "applied"
  /\ catalogFile' = imp.data
  /\ sideFile' = NoFile
  /\ imp' = [imp EXCEPT !.pc = "done", !.writes = @ + 1]
  /\ hist' = Append(hist, "import")
  /\ UNCHANGED <<ext, tr, runs, txt, res>>

\* json.dump(data) over en.json
ImportSave ==
  /\ imp.pc = "applied"
  /\ catalogFile' = imp.data
  /\ imp' = [imp EXCEPT !.pc = "done", !.writes = @ + 1]
  /\ hist' = Append(hist, "import")
  /\ UNCHANGED <<sideFile, ext, tr, runs, txt, res>>

\* the process ends
ImportExit ==
  /\ imp.pc \in {"done", "failed", "crashed", "killed"}
  /\ imp' = ImpIdle
  /\ UNCHANGED <<catalogFile, sideFile, ext, tr, runs, hist, txt, res>>

----------------------------------------------------------------------------
\* translate_all.py: main

\* count % 100 == 0
ProgressEvery == 100

\* reads, writes: how often the invocation opened en.json to read, to write
TrIdle == [pc |-> "idle", data |-> <<>>, i |-> 1, count |-> 0, total |-> 0,
           current_section |-> <<>>, progress |-> <<>>, remaining |-> 0,
           coverage |-> 0, seen |-> <<>>, before |-> <<>>,
           denoms |-> <<>>, error |-> "", reads |-> 0, writes |-> 0]

\* the integer nearest to num / den, a tie going to the even integer
round_div(num, den) ==
  LET q == num \div den
      r == num % den
  IN  IF 2 * r < den THEN q
      ELSE IF 2 * r > den THEN q + 1
      ELSE IF q % 2 = 0 THEN q ELSE q + 1

\* round(count / total * 100) with num = count * 100 and den = total: the
\* quotient and the product are floats, so where the exact value is a tie the
\* product may fall just beside it (round(23/40*100) is 57) and either
\* neighbour can come out; elsewhere the nearest integer does
round_float(num, den) ==
  IF 2 * (num % den) = den THEN {num \div den, (num \div den) + 1}
  ELSE {round_div(num, den)}

\* the test of main's loop and of the count of total
tr_is_todo(value) == isinstance_str(value) /\ startswith(value.s, MARKER)

\* the source text main computes
tr_chinese(value) == replace(value.s, MARKER_SP, <<>>)

\* total = sum(1 for v in data.values() if ...)
tr_total(data) == Cardinality({i \in 1..Len(data) : tr_is_todo(data[i].value)})

\* current_section after the key of an entry
tr_section(current_section, key) ==
  IF startswith(key, <<"/", "/", " ", "=", "=", "=">>) THEN key ELSE current_section

\* tr_entry that leaves an entry alone when translations-remaining.json holds a
\* translation of its source text
tr_entry_keeps_manual(value, current_section) ==
  LET chinese == tr_chinese(value)
      translation == translate_text(chinese, current_section)
      manual == /\ sideFile.exists
                /\ chinese \in DOMAIN sideFile.map
                /\ sideFile.map[chinese] # <<>>
  IN  IF tr_is_todo(value) /\ truthy(translation) /\ ~manual THEN Str(translation.s) ELSE value

\* tr_entry that strips the marker from an entry it cannot translate
tr_entry_strips_unresolved(value, current_section) ==
  LET translation == translate_text(tr_chinese(value), current_section)
  IN  IF tr_is_todo(value)
      THEN Str(IF truthy(translation) THEN translation.s ELSE tr_chinese(value))
      ELSE value

\* the value data[key] holds after the loop body ran on it
tr_entry(value, current_section) ==
  LET translation == translate_text(tr_chinese(value), current_section)
  IN  IF tr_is_todo(value) /\ truthy(translation) THEN Str(translation.s) ELSE value

\* current_section when the loop body runs on entry i
RECURSIVE tr_section_at(_, _)
tr_section_at(data, i) ==
  IF i = 0 THEN <<>> ELSE tr_section(tr_section_at(data, i - 1), data[i].key)

\* data after the whole loop over data.items()
tr_loop(data) ==
  [i \in 1..Len(data) |->
     [key |-> data[i].key, value |-> tr_entry(data[i].value, tr_section_at(data, i))]]

\* json.load of en.json; a text that is no JSON ends the process with
\* JSONDecodeError
TrLoad ==
  /\ tr.pc = "idle"
  /\ IF ~IsJson(catalogFile)
     THEN /\ tr' = [TrIdle EXCEPT !.pc = "crashed", !.error = "JSONDecodeError",
                                  !.before = catalogFile, !.reads = 1]
          /\ hist' = Append(hist, "translate_crashed")
     ELSE /\ tr' = [TrIdle EXCEPT !.pc = "loaded", !.data = catalogFile,
                                  !.before = catalogFile, !.reads = 1]
          /\ hist' = hist
  /\ runs' = runs + 1
  /\ UNCHANGED <<catalogFile, sideFile, ext, imp, txt, res>>

\* count = 0, total = ...; "Found N entries to translate..."
TrCount ==
  /\ tr.pc = "loaded"
  /\ tr' = [tr EXCEPT !.pc = "loop", !.count = 0, !.total = tr_total(tr.data),
                      !.current_section = <<>>, !.i = 1]
  /\ UNCHANGED <<catalogFile, sideFile, ext, imp, runs, hist, txt, res>>

\* TrStep that writes en.json each time it resolved an entry
TrStep_saves_each ==
  /\ tr.pc = "loop"
  /\ tr.i <= Len(tr.data)
  /\ LET key == tr.data[tr.i].key
         value == tr.data[tr.i].value
         section == tr_section(tr.current_section, key)
         new == tr_entry(value, section)
         hit == tr_is_todo(value)
         done == hit /\ truthy(translate_text(tr_chinese(value), section))
         count == IF done THEN tr.count + 1 ELSE tr.count
         printing == done /\ count % ProgressEvery = 0
         crash == printing /\ tr.total = 0
     IN  \E percent \in (IF printing /\ ~crash THEN round_float(count * 100, tr.total) ELSE {0}) :
           /\ tr' = [tr EXCEPT
                      !.pc = IF crash THEN "crashed" ELSE @,
                      !.error = IF crash THEN "ZeroDivisionError" ELSE @,
                      !.current_section = section,
                      !.data[tr.i].value = new,
                      !.count = count,
                      !.denoms = IF printing THEN Append(@, tr.total) ELSE @,
                      !.progress = IF printing /\ ~crash THEN Append(@, percent) ELSE @,
                      !.seen = Append(@, [hit |-> hit,
                                          chinese |-> IF hit THEN tr_chinese(value) ELSE <<>>]),
                      !.writes = IF done THEN @ + 1 ELSE @,
                      !.i = tr.i + 1]
           /\ catalogFile' = IF done THEN [tr.data EXCEPT ![tr.i].value = new] ELSE catalogFile
  /\ UNCHANGED <<sideFile, ext, imp, runs, hist, txt, res>>

\* one pass of the loop body, on entry i; the progress line divides by total,
\* and a division by zero ends the process with ZeroDivisionError
TrStep ==
  /\ tr.pc = "loop"
  /\ tr.i <= Len(tr.data)
  /\ LET key == tr.data[tr.i].key
         value == tr.data[tr.i].value
         section == tr_section(tr.current_section, key)
         new == tr_entry(value, section)
         hit == tr_is_todo(value)
         done == hit /\ truthy(translate_text(tr_chinese(value), section))
         count == IF done THEN tr.count + 1 ELSE tr.count
         printing == done /\ count % ProgressEvery = 0
         crash == printing /\ tr.total = 0
     IN  \E percent \in (IF printing /\ ~crash THEN round_float(count * 100, tr.total) ELSE {0}) :
           tr' = [tr EXCEPT
                    !.pc = IF crash THEN "crashed" ELSE @,
                    !.error = IF crash THEN "ZeroDivisionError" ELSE @,
                    !.current_section = section,
                    !.data[tr.i].value = new,
                    !.count = count,
                    !.denoms = IF printing THEN Append(@, tr.total) ELSE @,
                    !.progress = IF printing /\ ~crash THEN Append(@, percent) ELSE @,
                    !.seen = Append(@, [hit |-> hit,
                                        chinese |-> IF hit THEN tr_chinese(value) ELSE <<>>]),
                    !.i = tr.i + 1]
  /\ UNCHANGED <<catalogFile, sideFile, ext, imp, runs, hist, txt, res>>

\* TrSave that writes only the entries the loop changed
TrSave_changed_only ==
  /\ tr.pc = "loop"
  /\ tr.i > Len(tr.data)
  /\ catalogFile' = SelectSeq(tr.data, LAMBDA e : \A j \in 1..Len(tr.before) : tr.before[j] # e)
  /\ tr' = [tr EXCEPT !.pc = "saved", !.writes = @ + 1]
  /\ UNCHANGED <<sideFile, ext, imp, runs, hist, txt, res>>

\* json.dump(data) over en.json
TrSave ==
  /\ tr.pc = "loop"
  /\ tr.i > Len(tr.data)
  /\ catalogFile' = tr.data
  /\ tr' = [tr EXCEPT !.pc = "saved", !.writes = @ + 1]
  /\ UNCHANGED <<sideFile, ext, imp, runs, hist, txt, res>>

\* TrReport that computes the coverage without the test of total
TrReport_unguarded ==
  /\ tr.pc = "saved"
  /\ IF tr.total = 0
     THEN /\ tr' = [tr EXCEPT !.pc = "crashed", !.error = "ZeroDivisionError",
                              !.remaining = tr.total - tr.count,
                              !.denoms = Append(@, tr.total)]
          /\ hist' = hist
     ELSE /\ \E coverage \in round_float(tr.count * 100, tr.total) :
               tr' = [tr EXCEPT !.pc = "done",
                                !.remaining = tr.total - tr.count,
                                !.coverage = coverage,
                                !.denoms = Append(@, tr.total)]
          /\ hist' = Append(hist, "translate")
  /\ UNCHANGED <<catalogFile, sideFile, ext, imp, runs, txt, res>>

\* Translated, Remaining, Coverage: count / total is computed only if total > 0
TrReport ==
  /\ tr.pc = "saved"
  /\ \E coverage \in (IF tr.total > 0 THEN round_float(tr.count * 100, tr.total) ELSE {0}) :
       tr' = [tr EXCEPT !.pc = "done",
                        !.remaining = tr.total - tr.count,
                        !.coverage = coverage,
                        !.denoms = IF tr.total > 0 THEN Append(@, tr.total) ELSE @]
  /\ hist' = Append(hist, "translate")
  /\ UNCHANGED <<catalogFile, sideFile, ext, imp, runs, txt, res>>

\* the process ends
TrExit ==
  /\ tr.pc \in {"done", "crashed", "killed"}
  /\ tr' = TrIdle
  /\ UNCHANGED <<catalogFile, sideFile, ext, imp, runs, hist, txt, res>>

----------------------------------------------------------------------------
\* The operator fills in translations-remaining.json by hand

\* what the operator may type for one source text
FillValues == {<<>>, <<"C", "a", "t">>}

ManualFill ==
  /\ sideFile.exists
  /\ \E k \in DOMAIN sideFile.map, t \in FillValues :
       /\ sideFile.map[k] # t
       /\ sideFile' = File([sideFile.map EXCEPT ![k] = t])
  /\ UNCHANGED <<catalogFile, ext, imp, tr, runs, hist, txt, res>>

----------------------------------------------------------------------------
\* The tools run one after the other on one catalog

\* the result of no call
NotCalled == [none |-> TRUE, s |-> <<"not called">>]

\* catalog values of the initial catalog
CatalogValues ==
  { Str(MARKER_SP \o <<"jia", "zai">>),                        \* '[TODO: Translate] 加载'
    Str(MARKER_SP \o <<"mao">>),                               \* '[TODO: Translate] 猫'
    Str(MARKER \o <<"jia", "zai">>),                           \* '[TODO: Translate]加载'
    Str(MARKER_SP \o <<"jia">> \o MARKER_SP \o <<"zai">>),     \* '[TODO: Translate] 加[TODO: Translate] 载'
    Str(MARKER_SP \o <<"yi">> \o MARKER \o <<"he", "jia", "zai">>), \* '[TODO: Translate] 已[TODO: Translate]和加载'
    Str(MARKER_SP),                                            \* '[TODO: Translate] '
    Str(<<"L", "o", "a", "d">>),                               \* 'Load'
    NonStr(MARKER_SP \o <<"jia", "zai">>) }                    \* not a str: ['[TODO: Translate] 加载']

RECURSIVE SeqsUpTo(_, _)
SeqsUpTo(S, n) ==
  IF n = 0 THEN {<<>>}
  ELSE LET shorter == SeqsUpTo(S, n - 1)
       IN  shorter \cup {Append(s, x) : s \in {t \in shorter : Len(t) = n - 1}, x \in S}

\* the side artifact before the first run: none, or one left by an earlier session
InitialSides ==
  { NoFile,
    File([k \in {<<"mao">>, <<"jia", "zai">>} |->
            IF k = <<"mao">> THEN <<"C", "a", "t">> ELSE <<>>]) }

NoCall == txt = <<>> /\ res = NotCalled

Init ==
  /\ \E values \in SeqsUpTo(CatalogValues, MaxKeys) : catalogFile = Catalog(values)
  /\ sideFile \in InitialSides
  /\ ext = ExtIdle
  /\ imp = ImpIdle
  /\ tr = TrIdle
  /\ runs = 0
  /\ hist = <<>>
  /\ NoCall

\* no tool is running: the design runs the tools one at a time
Quiet == ext.pc = "idle" /\ imp.pc = "idle" /\ tr.pc = "idle"

MayStart == Quiet /\ runs < MaxRuns

Next ==
  \/ (MayStart /\ ExtractLoad)
  \/ ExtractScan
  \/ ExtractSave
  \/ ExtractExit
  \/ (MayStart /\ ImportCheck)
  \/ ImportLoadTranslations
  \/ ImportLoadCatalog
  \/ ImportApply
  \/ ImportSave
  \/ ImportExit
  \/ (MayStart /\ TrLoad)
  \/ TrCount
  \/ TrStep
  \/ TrSave
  \/ TrReport
  \/ TrExit
  \/ (Quiet /\ ManualFill)

Spec == Init /\ [][Next]_vars

----------------------------------------------------------------------------
\* One pending entry holding a text, run through the translator, and the text
\* handed to translate_text directly

\* 加载 失败 已 请求 响应 和 中 创建会话 猫 的 或 归档 导出 (the other
\* affixes and particles are in the texts of SpecRules)
Words ==
  { <<"jia", "zai">>, <<"shi", "bai">>, <<"yi">>, <<"qing", "qiu">>, <<"xiang", "ying">>,
    <<"he">>, <<"zhong">>, <<"chuang", "jian", "hui", "hua">>, <<"mao">>, <<"de">>,
    <<"huo">>, <<"gui", "dang">>, <<"dao", "chu">> }

RECURSIVE Concat(_)
Concat(ws) == IF ws = <<>> THEN <<>> ELSE Head(ws) \o Concat(Tail(ws))

Texts == {Concat(ws) : ws \in SeqsUpTo(Words, MaxWords)}

InitText ==
  /\ txt \in Texts
  /\ res = NotCalled
  /\ catalogFile = Catalog(<<Str(MARKER_SP \o txt)>>)
  /\ sideFile = NoFile
  /\ ext = ExtIdle
  /\ imp = ImpIdle
  /\ tr = TrIdle
  /\ runs = 0
  /\ hist = <<>>

\* translate_text(txt)
CallTranslateText ==
  /\ Quiet /\ runs = 0
  /\ res = NotCalled
  /\ res' = translate_text(txt, <<>>)
  /\ UNCHANGED <<catalogFile, sideFile, ext, imp, tr, runs, hist, txt>>

NextText ==
  \/ CallTranslateText
  \/ (runs = 0 /\ res = NotCalled /\ TrLoad)
  \/ TrCount
  \/ TrStep
  \/ TrSave
  \/ TrReport

SpecText == InitText /\ [][NextText]_vars

----------------------------------------------------------------------------
\* One pending entry holding a text made for one rule of translate_text: every
\* affix of the rules on a stem, and every particle between a stem and a right
\* side

\* words in a stem
MaxStem == 2

\* the prefixes the rules test with startswith, in the order of the source:
\* 加载 已 未 请 暂无 选择 打开 启用 禁用
Prefixes ==
  { <<"jia", "zai">>, <<"yi">>, <<"wei">>, <<"qing">>, <<"zan", "wu">>,
    <<"xuan", "ze">>, <<"da", "kai">>, <<"qi3", "yong">>, <<"jin", "yong">> }

\* the suffixes the rules test with endswith:
\* 失败 成功 中 列表 设置 模式 类型 文件 选择器 字段 路径 名称 信息 错误 包 目录
Suffixes ==
  { <<"shi", "bai">>, <<"cheng", "gong">>, <<"zhong">>, <<"lie", "biao">>,
    <<"she", "zhi">>, <<"mo", "shi4">>, <<"lei", "xing">>, <<"wen", "jian4">>,
    <<"xuan", "ze", "qi4">>, <<"zi", "duan">>, <<"lu", "jing">>,
    <<"ming", "cheng1">>, <<"xin", "xi">>, <<"cuo", "wu4">>, <<"bao1">>,
    <<"mu", "lu4">> }

\* the particles the rules split on: 的 和 或 后 中
Particles == { <<"de">>, <<"he">>, <<"huo">>, <<"hou">>, <<"zhong">> }

\* the nouns listed in the rule of 的: 值 内容 配置 设置 信息 状态 名称 类型 列表 文件
GenericNouns ==
  { <<"zhi2">>, <<"nei", "rong">>, <<"pei", "zhi">>, <<"she", "zhi">>, <<"xin", "xi">>,
    <<"zhuang", "tai">>, <<"ming", "cheng1">>, <<"lei", "xing">>, <<"lie", "biao">>,
    <<"wen", "jian4">> }

\* 猫 (in no rule and no key), 和 (a particle and a key), 加载 (a key and a prefix)
StemWords == { <<"mao">>, <<"he">>, <<"jia", "zai">> }

Stems == {Concat(ws) : ws \in SeqsUpTo(StemWords, MaxStem)}

\* what stands right of a particle
Rights == GenericNouns \cup { <<"mao">>, <<"jia", "zai">> }

RuleTexts ==
  {p \o s : p \in Prefixes, s \in Stems}
    \cup {s \o x : s \in Stems, x \in Suffixes}
    \cup {s \o c \o r : s \in Stems, c \in Particles, r \in Rights}

InitRules ==
  /\ txt \in RuleTexts
  /\ res = NotCalled
  /\ catalogFile = Catalog(<<Str(MARKER_SP \o txt)>>)
  /\ sideFile = NoFile
  /\ ext = ExtIdle
  /\ imp = ImpIdle
  /\ tr = TrIdle
  /\ runs = 0
  /\ hist = <<>>

SpecRules == InitRules /\ [][NextText]_vars

----------------------------------------------------------------------------
\* One pending entry holding segments joined by the particles 和 或 后, the same
\* particle more than once included

\* segments in a text
MaxParts == 3

\* the empty segment, 猫 (in no rule and no key) and 加载 (a key and a prefix)
Segments == { <<>>, <<"mao">>, <<"jia", "zai">> }

\* 和 或 后
SplitParticles == { <<"he">>, <<"huo">>, <<"hou">> }

\* the texts of n segments
RECURSIVE SplitTextsOf(_)
SplitTextsOf(n) ==
  IF n = 1 THEN Segments
  ELSE {t \o p \o g : t \in SplitTextsOf(n - 1), p \in SplitParticles, g \in Segments}

SplitTexts == UNION {SplitTextsOf(n) : n \in 2..MaxParts}

InitSplit ==
  /\ txt \in SplitTexts
  /\ res = NotCalled
  /\ catalogFile = Catalog(<<Str(MARKER_SP \o txt)>>)
  /\ sideFile = NoFile
  /\ ext = ExtIdle
  /\ imp = ImpIdle
  /\ tr = TrIdle
  /\ runs = 0
  /\ hist = <<>>

SpecSplit == InitSplit /\ [][NextText]_vars

----------------------------------------------------------------------------
\* The translator on a long catalog, so that progress lines are printed

\* pending entries the translator resolves, in the longest catalog
MaxPending == 101

\* entries that are not pending, and pending entries no rule resolves, in a
\* long catalog
MaxOther == 1

\* lead entries 'Load', then stay entries '[TODO: Translate] 猫', then
\* resolve entries '[TODO: Translate] 加载'
LongValues(lead, stay, resolve) ==
  [i \in 1..(lead + stay + resolve) |->
     IF i <= lead THEN Str(<<"L", "o", "a", "d">>)
     ELSE IF i <= lead + stay THEN Str(MARKER_SP \o <<"mao">>)
     ELSE Str(MARKER_SP \o <<"jia", "zai">>)]

InitLong ==
  /\ \E lead \in 0..MaxOther, stay \in 0..MaxOther, resolve \in 0..MaxPending :
       catalogFile = Catalog(LongValues(lead, stay, resolve))
  /\ sideFile = NoFile
  /\ ext = ExtIdle
  /\ imp = ImpIdle
  /\ tr = TrIdle
  /\ runs = 0
  /\ hist = <<>>
  /\ NoCall

NextLong ==
  \/ (runs = 0 /\ TrLoad)
  \/ TrCount
  \/ TrStep
  \/ TrSave
  \/ TrReport
  \/ TrExit

SpecLong == InitLong /\ [][NextLong]_vars

----------------------------------------------------------------------------
\* Import and the translator, one at a time, each of which may be killed while
\* it runs

\* the import is killed before it opened en.json to write
ImportKill ==
  /\ imp.pc \in {"checked", "have_translations", "loaded", "applied"}
  /\ imp' = [imp EXCEPT !.pc = "killed"]
  /\ hist' = Append(hist, "import_killed")
  /\ UNCHANGED <<catalogFile, sideFile, ext, tr, runs, txt, res>>

\* the import is killed inside json.dump: en.json holds a part of the text
ImportKillInSave ==
  /\ imp.pc = "applied"
  /\ catalogFile' = Truncated
  /\ imp' = [imp EXCEPT !.pc = "killed", !.writes = @ + 1]
  /\ hist' = Append(hist, "import_killed")
  /\ UNCHANGED <<sideFile, ext, tr, runs, txt, res>>

\* the translator is killed before it opened en.json to write, or after it
\* closed it
TrKill ==
  /\ tr.pc \in {"loaded", "loop", "saved"}
  /\ tr' = [tr EXCEPT !.pc = "killed"]
  /\ hist' = Append(hist, "translate_killed")
  /\ UNCHANGED <<catalogFile, sideFile, ext, imp, runs, txt, res>>

\* the translator is killed inside json.dump: en.json holds a part of the text
TrKillInSave ==
  /\ tr.pc = "loop"
  /\ tr.i > Len(tr.data)
  /\ catalogFile' = Truncated
  /\ tr' = [tr EXCEPT !.pc = "killed", !.writes = @ + 1]
  /\ hist' = Append(hist, "translate_killed")
  /\ UNCHANGED <<sideFile, ext, imp, runs, txt, res>>

InitKill ==
  /\ \E values \in SeqsUpTo(CatalogValues, MaxKeys) : catalogFile = Catalog(values)
  /\ sideFile \in InitialSides \cup {MalformedSide}
  /\ ext = ExtIdle
  /\ imp = ImpIdle
  /\ tr = TrIdle
  /\ runs = 0
  /\ hist = <<>>
  /\ NoCall

NextKill ==
  \/ (MayStart /\ ImportCheck)
  \/ ImportLoadTranslations
  \/ ImportLoadCatalog
  \/ ImportApply
  \/ ImportSave
  \/ ImportKill
  \/ ImportKillInSave
  \/ ImportExit
  \/ (MayStart /\ TrLoad)
  \/ TrCount
  \/ TrStep
  \/ TrSave
  \/ TrReport
  \/ TrKill
  \/ TrKillInSave
  \/ TrExit

SpecKill == InitKill /\ [][NextKill]_vars

----------------------------------------------------------------------------
\* One import and one translator run at the same time on one en.json.  The
\* write of en.json is two steps: open(EN_FILE, 'w') empties the file, and
\* json.dump with the close of the file puts the text at the start of the
\* file (a catalog of a few entries fits the buffer of the file object and
\* is written in one piece)

\* bytes of one character in UTF-8 (ensure_ascii=False): a Chinese character
\* takes three
utf8_len(c) == IF Len(c) = 1 THEN 1 ELSE 3

RECURSIVE str_bytes(_)
str_bytes(s) == IF s = <<>> THEN 0 ELSE utf8_len(Head(s)) + str_bytes(Tail(s))

\* "value", or, for the list holding one string, [ "value" ] over three
\* lines with indent=2
value_bytes(v) == IF v.isStr THEN str_bytes(v.s) + 2 ELSE str_bytes(v.s) + 12

\* two spaces, "key", a colon and a space, the value
entry_bytes(e) == 2 + (str_bytes(e.key) + 2) + 2 + value_bytes(e.value)

RECURSIVE entries_bytes(_)
entries_bytes(data) ==
  IF data = <<>> THEN 0 ELSE entry_bytes(Head(data)) + entries_bytes(Tail(data))

\* bytes of the text json.dump(data, f, ensure_ascii=False, indent=2) writes
TextLen(data) ==
  IF data = <<>> THEN 2
  ELSE 2 + entries_bytes(data) + 2 * (Len(data) - 1) + 2

\* Overwrite of a save that replaces en.json in one step
Overwrite_atomic(old, data) == {data}

\* what en.json can hold after the text of data was written at its start: the
\* file keeps what it held beyond the end of the new text
Overwrite(old, data) ==
  IF old = Emptied THEN {data}
  ELSE IF ~IsJson(old) THEN {data, Garbled}
  ELSE IF TextLen(old) <= TextLen(data) THEN {data}
  ELSE {Garbled}

\* open(EN_FILE, 'w') of the import
ImportOpenWrite ==
  /\ imp.pc = "applied"
  /\ catalogFile' = Emptied
  /\ imp' = [imp EXCEPT !.pc = "writing", !.writes = @ + 1]
  /\ hist' = Append(hist, "import_opened")
  /\ UNCHANGED <<sideFile, ext, tr, runs, txt, res>>

\* json.dump(data, f) of the import and the close of the file
ImportDump ==
  /\ imp.pc = "writing"
  /\ catalogFile' \in Overwrite(catalogFile, imp.data)
  /\ imp' = [imp EXCEPT !.pc = "done"]
  /\ hist' = Append(hist, "import_written")
  /\ UNCHANGED <<sideFile, ext, tr, runs, txt, res>>

\* open(EN_FILE, 'w') of the translator
TrOpenWrite ==
  /\ tr.pc = "loop"
  /\ tr.i > Len(tr.data)
  /\ catalogFile' = Emptied
  /\ tr' = [tr EXCEPT !.pc = "writing", !.writes = @ + 1]
  /\ hist' = Append(hist, "translate_opened")
  /\ UNCHANGED <<sideFile, ext, imp, runs, txt, res>>

\* json.dump(data, f) of the translator and the close of the file
TrDump ==
  /\ tr.pc = "writing"
  /\ catalogFile' \in Overwrite(catalogFile, tr.data)
  /\ tr' = [tr EXCEPT !.pc = "saved"]
  /\ hist' = Append(hist, "translate_written")
  /\ UNCHANGED <<sideFile, ext, imp, runs, txt, res>>

InitRace ==
  /\ \E values \in SeqsUpTo(CatalogValues, MaxKeys) : catalogFile = Catalog(values)
  /\ sideFile \in InitialSides
  /\ ext = ExtIdle
  /\ imp = ImpIdle
  /\ tr = TrIdle
  /\ runs = 0
  /\ hist = <<>>
  /\ NoCall

\* each tool is started once, at any time
NextRace ==
  \/ ImportCheck
  \/ ImportLoadTranslations
  \/ ImportLoadCatalog
  \/ ImportApply
  \/ ImportOpenWrite
  \/ ImportDump
  \/ TrLoad
  \/ TrCount
  \/ TrStep
  \/ TrOpenWrite
  \/ TrDump
  \/ TrReport

SpecRace == InitRace /\ [][NextRace]_vars

----------------------------------------------------------------------------
\* The manual workflow, in the order the tools print it: extraction ("1. Open
\* translations-remaining.json 2. Fill in English translations for each
\* Chinese text 3. Run import_translations.py to merge back"), the operator
\* fills in empty slots, import, and extraction again

\* what the operator may type into an empty slot
SlotValues ==
  { <<"C", "a", "t">>,                    \* 'Cat'
    MARKER \o <<"x">>,                    \* '[TODO: Translate]x'
    MARKER_SP \o <<"mao">> }              \* '[TODO: Translate] 猫'

\* "2. Fill in English translations for each Chinese text": one slot
FillIn ==
  /\ sideFile.exists
  /\ \E k \in DOMAIN sideFile.map, t \in SlotValues :
       /\ sideFile.map[k] = <<>>
       /\ sideFile' = File([sideFile.map EXCEPT ![k] = t])
  /\ hist' = Append(hist, "fill")
  /\ UNCHANGED <<catalogFile, ext, imp, tr, runs, txt, res>>

\* the tool saved in an earlier run
Saved(tool) == \E k \in 1..Len(hist) : hist[k] = tool

\* the extraction runs first, and once more after the import
MayExtract ==
  /\ Quiet
  /\ IF Saved("extract") THEN hist[Len(hist)] = "import" ELSE TRUE

\* the import runs once, after the extraction
MayImport == Quiet /\ Saved("extract") /\ ~Saved("import")

NextPipeline ==
  \/ (MayExtract /\ ExtractLoad)
  \/ ExtractScan
  \/ ExtractSave
  \/ ExtractExit
  \/ (MayImport /\ ImportCheck)
  \/ ImportLoadTranslations
  \/ ImportLoadCatalog
  \/ ImportApply
  \/ ImportSave
  \/ ImportExit
  \/ (Quiet /\ FillIn)

SpecPipeline == Init /\ [][NextPipeline]_vars

----------------------------------------------------------------------------
\* The vocabulary of the specification

\* is_pending(v): a string that begins with the marker followed by a space
IsPending(v) == v.isStr /\ startswith(v.s, MARKER_SP)

\* extract_source(v): what follows the leading marker and its one space
SourceText(v) == dropFirst(v.s, Len(MARKER_SP))

\* the test of an affix rule holds of the text
MatchesAffix(t) ==
  \/ \E p \in { <<"jia", "zai">>, <<"yi">>, <<"wei">>, <<"qing">>, <<"zan", "wu">>,
                <<"xuan", "ze">>, <<"da", "kai">>, <<"qi3", "yong">>, <<"jin", "yong">> } :
       startswith(t, p)
  \/ \E x \in { <<"shi", "bai">>, <<"cheng", "gong">>, <<"zhong">>, <<"lie", "biao">>,
                <<"she", "zhi">>, <<"mo", "shi4">>, <<"lei", "xing">>, <<"wen", "jian4">>,
                <<"xuan", "ze", "qi4">>, <<"zi", "duan">>, <<"lu", "jing">>,
                <<"ming", "cheng1">>, <<"xin", "xi">>, <<"cuo", "wu4">>, <<"bao1">>,
                <<"mu", "lu4">> } :
       endswith(t, x)

\* the text contains none of the given particles
HasNone(t, particles) == \A p \in particles : ~contains(t, p)

\* the last two invocations that finished
LastTwo == IF Len(hist) >= 2 THEN SubSeq(hist, Len(hist) - 1, Len(hist)) ELSE <<>>

----------------------------------------------------------------------------
\* Claims about the three tools (specification Spec)

\* C1: in all three tools a value is treated as pending iff it is a string
\* that begins with '[TODO: Translate]' followed by a space.  The tools test
\* startswith('[TODO: Translate]'), so '[TODO: Translate]加载' is treated as
\* pending too: the statement fails.
C1_PendingIffMarkerAndSpace ==
  /\ \A i \in 1..Len(ext.seen) : ext.seen[i].hit <=> IsPending(ext.before[i].value)
  /\ \A i \in 1..Len(imp.seen) : imp.seen[i].hit <=> IsPending(imp.before[i].value)
  /\ \A i \in 1..Len(tr.seen) : tr.seen[i].hit <=> IsPending(tr.before[i].value)

\* C2: for every pending value the source text a tool extracts is exactly what
\* follows the leading marker and its space, also when the marker occurs again
\* later.  The tools remove every occurrence of '[TODO: Translate] ': fails.
C2_SourceIsRestAfterPrefix ==
  /\ \A i \in 1..Len(ext.seen) :
       IsPending(ext.before[i].value) => ext.seen[i].chinese = SourceText(ext.before[i].value)
  /\ \A i \in 1..Len(imp.seen) :
       IsPending(imp.before[i].value) => imp.seen[i].chinese = SourceText(imp.before[i].value)
  /\ \A i \in 1..Len(tr.seen) :
       IsPending(tr.before[i].value) => tr.seen[i].chinese = SourceText(tr.before[i].value)

\* C3: after an import with a side artifact present, a value that was pending
\* and whose source text has a non-empty translation in the artifact is that
\* translation, and every other value is as it was before the import.
C3_ImportFrame ==
  imp.pc = "done" =>
    /\ Len(catalogFile) = Len(imp.before)
    /\ \A i \in 1..Len(imp.before) :
         LET v == imp.before[i].value
             t == imp.sideBefore.map
         IN  catalogFile[i].value =
               IF IsPending(v) /\ SourceText(v) \in DOMAIN t /\ t[SourceText(v)] # <<>>
               THEN Str(t[SourceText(v)])
               ELSE v

\* C4: after an extraction the side artifact is exactly the mapping from the
\* distinct source texts of the pending entries to the empty string.
C4_ExtractExactMapping ==
  ext.pc = "done" =>
    sideFile = File([k \in {SourceText(ext.before[i].value) :
                              i \in {j \in 1..Len(ext.before) : IsPending(ext.before[j].value)}}
                       |-> <<>>])

\* C5: an import started without a side artifact ends in the failure state
\* (exit status 1) as its first step: en.json is neither read nor written, and
\* the run never counts as a finished import.
C5_MissingSideArtifactFails ==
  (imp.pc # "idle" /\ ~imp.sideBefore.exists) =>
    /\ imp.pc = "failed"
    /\ imp.exit = 1
    /\ imp.data = <<>> /\ imp.translations = EmptyDict /\ imp.count = 0
    /\ catalogFile = imp.before
    /\ hist # <<>> /\ hist[Len(hist)] = "import_failed"

\* C5 witness: an import that failed on a catalog with entries
C5_Witness == imp.pc = "failed" /\ Len(catalogFile) >= 1 /\ ~sideFile.exists

\* C6: a second run of the translator right after a first one changes no value.
\* '[TODO: Translate] 已[TODO: Translate]和加载' becomes '[TODO: Translate]和加载'
\* in the first run and '[TODO: Translate] and Load' in the second: fails.
C6_TranslatorIdempotent ==
  (tr.pc = "done" /\ LastTwo = <<"translate", "translate">>) => catalogFile = tr.before

\* C8: after a run of the translator a pending entry whose source text
\* translate_text resolves holds that result, and every other entry is as it
\* was before the run.
C8_TranslatorFrame ==
  tr.pc = "done" =>
    /\ Len(catalogFile) = Len(tr.before)
    /\ \A i \in 1..Len(tr.before) :
         LET v == tr.before[i].value
             t == translate_text(SourceText(v), <<>>)
         IN  catalogFile[i].value = IF IsPending(v) /\ truthy(t) THEN Str(t.s) ELSE v

\* C16: after a run of the translator the Remaining it reports (pending at
\* the start minus translated) is the number of pending entries of the written
\* catalog, and when it is 0 no value begins with the marker.
\* '[TODO: Translate] 已[TODO: Translate]和加载' counts as translated, yet it
\* is written as '[TODO: Translate]和加载': fails.
C16_RemainingIsPendingLeft ==
  tr.pc = "done" =>
    /\ tr.remaining = Cardinality({i \in 1..Len(catalogFile) : IsPending(catalogFile[i].value)})
    /\ tr.remaining = 0 =>
         \A i \in 1..Len(catalogFile) :
           catalogFile[i].value.isStr => ~startswith(catalogFile[i].value.s, MARKER)

\* C17: entries that share one source text share one resolution on import:
\* after an import either all of them hold the same non-empty translation of
\* the side artifact or all of them are as they were.  It is stated for the
\* source text of the specification and for the one the tool computes.
C17_SharedResolution ==
  imp.pc = "done" =>
    \A i, j \in 1..Len(imp.before) :
      LET vi == imp.before[i].value
          vj == imp.before[j].value
          t == imp.sideBefore.map
          same == \/ IsPending(vi) /\ IsPending(vj) /\ SourceText(vi) = SourceText(vj)
                  \/ imp.seen[i].hit /\ imp.seen[j].hit
                       /\ imp.seen[i].chinese = imp.seen[j].chinese
      IN  same =>
            \/ catalogFile[i].value = vi /\ catalogFile[j].value = vj
            \/ \E k \in DOMAIN t :
                 /\ t[k] # <<>>
                 /\ catalogFile[i].value = Str(t[k])
                 /\ catalogFile[j].value = Str(t[k])

\* C17 witness: two entries '[TODO: Translate] 猫' and a side artifact with
\* 猫 -> Cat: both entries are 'Cat' after the import
C17_Witness ==
  /\ imp.pc = "done"
  /\ Len(imp.before) = 2
  /\ imp.before[1].value = Str(MARKER_SP \o <<"mao">>)
  /\ imp.before[2].value = Str(MARKER_SP \o <<"mao">>)
  /\ catalogFile[1].value = Str(<<"C", "a", "t">>)
  /\ catalogFile[2].value = Str(<<"C", "a", "t">>)

\* C18 as stated: the translator does not overwrite a pending entry whose
\* source text has a non-empty translation in the side artifact.
\* '[TODO: Translate] 加载' with 加载 -> Cat in the artifact is written as
\* 'Load': fails.
C18_ManualTranslationKept ==
  tr.pc = "done" =>
    \A i \in 1..Len(tr.before) :
      LET v == tr.before[i].value
      IN  ( /\ IsPending(v)
            /\ SourceText(v) \in DOMAIN sideFile.map
            /\ sideFile.map[SourceText(v)] # <<>> ) =>
            catalogFile[i].value = v

\* C18 amended: the translator takes no account of the side artifact: an
\* entry it treats as pending and whose source text, as it computes it, has a
\* non-empty translation there is overwritten with the result of
\* translate_text whenever translate_text resolves it, and is left as it was
\* only when it does not.
C18_TranslatorIgnoresSideArtifact ==
  tr.pc = "done" =>
    \A i \in 1..Len(tr.before) :
      LET chinese == tr.seen[i].chinese
          translation == translate_text(chinese, <<>>)
      IN  ( /\ tr.seen[i].hit
            /\ chinese \in DOMAIN sideFile.map
            /\ sideFile.map[chinese] # <<>> ) =>
            catalogFile[i].value =
              IF truthy(translation) THEN Str(translation.s) ELSE tr.before[i].value

\* C18 witness: 加载 -> Cat is in the side artifact and the entry
\* '[TODO: Translate] 加载' is written as 'Load'
C18_Witness ==
  /\ tr.pc = "done"
  /\ Len(tr.before) >= 1
  /\ tr.before[1].value = Str(MARKER_SP \o <<"jia", "zai">>)
  /\ sideFile.exists
  /\ <<"jia", "zai">> \in DOMAIN sideFile.map
  /\ sideFile.map[<<"jia", "zai">>] = <<"C", "a", "t">>
  /\ catalogFile[1].value = Str(<<"L", "o", "a", "d">>)

\* the keys of a catalog, in order
KeysOf(c) == [i \in 1..Len(c) |-> c[i].key]

\* the written catalog has the shape of the loaded one: the same keys in the
\* same order, and every value that is no pending string as it was
SameShape(before, after) ==
  /\ KeysOf(after) = KeysOf(before)
  /\ \A i \in 1..Len(before) :
       ~IsPending(before[i].value) => after[i].value = before[i].value

\* C19: after a run of the import or of the translator the catalog has the
\* same keys in the same order, every value that is not a string and every
\* string that is not pending is unchanged, and a run that resolved nothing
\* wrote back the catalog it loaded.  The import treats
\* '[TODO: Translate]加载', which is not pending, as pending and overwrites it
\* when the side artifact has a translation under that very key: fails.
C19_ShapePreserved ==
  /\ imp.pc = "done" =>
       /\ SameShape(imp.before, catalogFile)
       /\ imp.count = 0 => catalogFile = imp.before
  /\ tr.pc = "done" =>
       /\ SameShape(tr.before, catalogFile)
       /\ tr.count = 0 => catalogFile = tr.before

\* C25: a step of the extraction leaves en.json as it is, and a step of the
\* import or of the translator leaves translations-remaining.json as it is.
C25_OwnOutputOnly ==
  [][ /\ ext' # ext => catalogFile' = catalogFile
      /\ (imp' # imp \/ tr' # tr) => sideFile' = sideFile ]_vars

\* C25 witness: the extraction wrote the side artifact, a translation was
\* filled in, and the import wrote the catalog: the side artifact is what the
\* import found, the catalog is not
C25_Witness ==
  /\ hist = <<"extract", "import">>
  /\ imp.pc = "done"
  /\ imp.count >= 1
  /\ catalogFile # imp.before
  /\ sideFile.exists /\ sideFile = imp.sideBefore

----------------------------------------------------------------------------
\* Claims about translate_text (specification SpecText)

\* the value the translator wrote for the one entry of SpecText
Written == catalogFile[1].value

\* C7: a text that is a key of the phrase dictionary translates to its
\* dictionary value whatever affixes or particles it contains, and so does a
\* segment of a text split on "和" or "或" that is a key.
C7_ExactLookupFirst ==
  res # NotCalled =>
    /\ txt \in DictKeys => res = Some(TRANSLATIONS(txt))
    /\ \A sep \in {<<"he">>, <<"huo">>} :
         ( /\ txt \notin DictKeys
           /\ ~MatchesAffix(txt)
           /\ ~contains(txt, <<"de">>)
           /\ contains(txt, sep)
           /\ sep = <<"huo">> => ~contains(txt, <<"he">>) ) =>
           LET parts == split1(txt, sep)
               word == IF sep = <<"he">> THEN <<" ", "a", "n", "d", " ">> ELSE <<" ", "o", "r", " ">>
           IN  /\ ~res.none
               /\ parts[1] \in DictKeys => startswith(res.s, TRANSLATIONS(parts[1]) \o word)
               /\ parts[2] \in DictKeys => endswith(res.s, word \o TRANSLATIONS(parts[2]))

\* C7 witness: 加载失败 is a key that begins with 加载 and ends with 失败, and its
\* translation is the dictionary's 'Failed to load'
C7_Witness ==
  /\ txt = <<"jia", "zai", "shi", "bai">>
  /\ txt \in DictKeys
  /\ res = Some(<<"F", "a", "i", "l", "e", "d", " ", "t", "o", " ", "l", "o", "a", "d">>)

\* C9 as stated: every text L和R with L and R dictionary keys is written as
\* '<dict[L]> and <dict[R]>'.  请求和响应 begins with 请, the rule "请X" comes
\* first and writes 'Please 求 and response': fails.
C9_AndSplitForAllKeys ==
  tr.pc = "done" =>
    \A L \in DictKeys, R \in DictKeys :
      txt = L \o <<"he">> \o R =>
        Written = Str(TRANSLATIONS(L) \o <<" ", "a", "n", "d", " ">> \o TRANSLATIONS(R))

\* C9 amended: it holds when L contains no 和 and the whole text is no
\* dictionary key, matches no affix rule and contains no 的.
C9_AndSplitAmended ==
  tr.pc = "done" =>
    \A L \in DictKeys, R \in DictKeys :
      ( /\ txt = L \o <<"he">> \o R
        /\ ~contains(L, <<"he">>)
        /\ txt \notin DictKeys
        /\ ~MatchesAffix(txt)
        /\ ~contains(txt, <<"de">>) ) =>
        Written = Str(TRANSLATIONS(L) \o <<" ", "a", "n", "d", " ">> \o TRANSLATIONS(R))

\* C9 witness: 响应和请求 is written as 'Response and Request'
C9_Witness ==
  /\ tr.pc = "done"
  /\ txt = <<"xiang", "ying", "he", "qing", "qiu">>
  /\ ~MatchesAffix(txt) /\ txt \notin DictKeys
  /\ Written = Str(<<"R", "e", "s", "p", "o", "n", "s", "e", " ", "a", "n", "d", " ",
                     "R", "e", "q", "u", "e", "s", "t">>)

\* the result the claim C10 gives for X失败 with X a dictionary key
FailedOf(base) ==
  IF TRANSLATIONS(base) \in { <<"L", "o", "a", "d">>, <<"S", "a", "v", "e">>,
                              <<"D", "e", "l", "e", "t", "e">>, <<"A", "d", "d">>,
                              <<"E", "d", "i", "t">>, <<"U", "p", "d", "a", "t", "e">>,
                              <<"C", "r", "e", "a", "t", "e">>, <<"I", "m", "p", "o", "r", "t">>,
                              <<"E", "x", "p", "o", "r", "t">> }
  THEN <<"F", "a", "i", "l", "e", "d", " ", "t", "o", " ">> \o lower(TRANSLATIONS(base))
  ELSE TRANSLATIONS(base) \o <<" ", "f", "a", "i", "l", "e", "d">>

\* C10 as stated: every text X失败 with X a dictionary key is written as
\* 'Failed to <verb>' or '<dict[X]> failed'.  创建会话失败 is itself a key
\* ('Failed to create session', not 'Create session failed') and 加载中失败
\* is taken by the rule "加载X" ('Load 中失败'): fails.
C10_FailedSuffixForAllKeys ==
  (tr.pc = "done" /\ endswith(txt, <<"shi", "bai">>) /\ dropLast(txt, 2) \in DictKeys) =>
    Written = Str(FailedOf(dropLast(txt, 2)))

\* C10 amended: it holds when X失败 is not itself a dictionary key and does not
\* begin with 加载; a text X失败 that is a key is written as its dictionary value.
C10_FailedSuffixAmended ==
  (tr.pc = "done" /\ endswith(txt, <<"shi", "bai">>) /\ dropLast(txt, 2) \in DictKeys) =>
    /\ (txt \notin DictKeys /\ ~startswith(txt, <<"jia", "zai">>)) =>
         Written = Str(FailedOf(dropLast(txt, 2)))
    /\ txt \in DictKeys => Written = Str(TRANSLATIONS(txt))

\* C10 witness: 导出失败 is no key, 导出 is 'Export': 'Failed to export'
C10_Witness ==
  /\ tr.pc = "done"
  /\ txt = <<"dao", "chu", "shi", "bai">>
  /\ txt \notin DictKeys
  /\ Written = Str(<<"F", "a", "i", "l", "e", "d", " ", "t", "o", " ", "e", "x", "p", "o", "r", "t">>)

----------------------------------------------------------------------------
\* Claims about the rules of translate_text (specification SpecRules)

\* the resolved form of a segment: what translate_text makes of it, and the
\* segment itself when it makes nothing of it
Resolved(t) ==
  LET r == translate_text(t, <<>>)
  IN  IF truthy(r) THEN r.s ELSE t

\* txt is split on 的: it is no key, no affix rule takes it, and it contains 的
SplitsOnDe == txt \notin DictKeys /\ ~MatchesAffix(txt) /\ contains(txt, <<"de">>)

\* C11 as stated: a text split on 的 is written as '<right> of <left>' for every
\* right segment, generic noun or not.  猫的加载 is written as "猫's Load": fails.
C11_OfTemplateForEveryRight ==
  (tr.pc = "done" /\ SplitsOnDe) =>
    LET parts == split1(txt, <<"de">>)
    IN  Written = Str(Resolved(parts[2]) \o <<" ", "o", "f", " ">> \o Resolved(parts[1]))

\* C11 amended: a text split on 的 is written as '<right> of <left>' when the
\* right segment is one of the generic nouns and as "<left>'s <right>" when it
\* is not.
C11_OfOnlyForGenericNouns ==
  (tr.pc = "done" /\ SplitsOnDe) =>
    LET parts == split1(txt, <<"de">>)
    IN  Written =
          IF parts[2] \in GenericNouns
          THEN Str(Resolved(parts[2]) \o <<" ", "o", "f", " ">> \o Resolved(parts[1]))
          ELSE Str(Resolved(parts[1]) \o <<"'", "s", " ">> \o Resolved(parts[2]))

\* C11 witness: 猫的加载, whose right segment 加载 is no generic noun, is
\* written as "猫's Load"
C11_Witness ==
  /\ tr.pc = "done"
  /\ txt = <<"mao", "de", "jia", "zai">>
  /\ SplitsOnDe
  /\ Written = Str(<<"mao", "'", "s", " ", "L", "o", "a", "d">>)

\* the affix rules in the order of the source: the affix and its place, the
\* English put before and after the remainder, and whether a remainder that
\* is no key is resolved by translate_text before the raw remainder is used
\* (加载 失败 成功 已 中 未 请 暂无 列表 设置 模式 类型 文件 选择器 字段 路径
\* 选择 打开 名称 信息 错误 包 目录 启用 禁用)
AffixTable ==
  << [prefix |-> TRUE, affix |-> <<"jia", "zai">>, pre |-> <<"L", "o", "a", "d", " ">>, post |-> <<>>, recurses |-> FALSE],
     [prefix |-> FALSE, affix |-> <<"shi", "bai">>, pre |-> <<>>, post |-> <<" ", "f", "a", "i", "l", "e", "d">>, recurses |-> TRUE],
     [prefix |-> FALSE, affix |-> <<"cheng", "gong">>, pre |-> <<>>, post |-> <<" ", "s", "u", "c", "c", "e", "s", "s", "f", "u", "l">>, recurses |-> TRUE],
     [prefix |-> TRUE, affix |-> <<"yi">>, pre |-> <<>>, post |-> <<>>, recurses |-> FALSE],
     [prefix |-> FALSE, affix |-> <<"zhong">>, pre |-> <<>>, post |-> <<"i", "n", "g">>, recurses |-> FALSE],
     [prefix |-> TRUE, affix |-> <<"wei">>, pre |-> <<"N", "o", "t", " ">>, post |-> <<>>, recurses |-> FALSE],
     [prefix |-> TRUE, affix |-> <<"qing">>, pre |-> <<"P", "l", "e", "a", "s", "e", " ">>, post |-> <<>>, recurses |-> TRUE],
     [prefix |-> TRUE, affix |-> <<"zan", "wu">>, pre |-> <<"N", "o", " ">>, post |-> <<>>, recurses |-> FALSE],
     [prefix |-> FALSE, affix |-> <<"lie", "biao">>, pre |-> <<>>, post |-> <<" ", "l", "i", "s", "t">>, recurses |-> TRUE],
     [prefix |-> FALSE, affix |-> <<"she", "zhi">>, pre |-> <<>>, post |-> <<" ", "s", "e", "t", "t", "i", "n", "g", "s">>, recurses |-> TRUE],
     [prefix |-> FALSE, affix |-> <<"mo", "shi4">>, pre |-> <<>>, post |-> <<" ", "m", "o", "d", "e">>, recurses |-> FALSE],
     [prefix |-> FALSE, affix |-> <<"lei", "xing">>, pre |-> <<>>, post |-> <<" ", "t", "y", "p", "e">>, recurses |-> FALSE],
     [prefix |-> FALSE, affix |-> <<"wen", "jian4">>, pre |-> <<>>, post |-> <<" ", "f", "i", "l", "e">>, recurses |-> TRUE],
     [prefix |-> FALSE, affix |-> <<"xuan", "ze", "qi4">>, pre |-> <<>>, post |-> <<" ", "s", "e", "l", "e", "c", "t", "o", "r">>, recurses |-> FALSE],
     [prefix |-> FALSE, affix |-> <<"zi", "duan">>, pre |-> <<>>, post |-> <<" ", "f", "i", "e", "l", "d">>, recurses |-> FALSE],
     [prefix |-> FALSE, affix |-> <<"lu", "jing">>, pre |-> <<>>, post |-> <<" ", "p", "a", "t", "h">>, recurses |-> TRUE],
     [prefix |-> TRUE, affix |-> <<"xuan", "ze">>, pre |-> <<"S", "e", "l", "e", "c", "t", " ">>, post |-> <<>>, recurses |-> TRUE],
     [prefix |-> TRUE, affix |-> <<"da", "kai">>, pre |-> <<"O", "p", "e", "n", " ">>, post |-> <<>>, recurses |-> TRUE],
     [prefix |-> FALSE, affix |-> <<"ming", "cheng1">>, pre |-> <<>>, post |-> <<" ", "n", "a", "m", "e">>, recurses |-> TRUE],
     [prefix |-> FALSE, affix |-> <<"xin", "xi">>, pre |-> <<>>, post |-> <<" ", "i", "n", "f", "o", "r", "m", "a", "t", "i", "o", "n">>, recurses |-> TRUE],
     [prefix |-> FALSE, affix |-> <<"cuo", "wu4">>, pre |-> <<>>, post |-> <<" ", "e", "r", "r", "o", "r">>, recurses |-> FALSE],
     [prefix |-> FALSE, affix |-> <<"bao1">>, pre |-> <<>>, post |-> <<" ", "p", "a", "c", "k", "a", "g", "e">>, recurses |-> FALSE],
     [prefix |-> FALSE, affix |-> <<"mu", "lu4">>, pre |-> <<>>, post |-> <<" ", "d", "i", "r", "e", "c", "t", "o", "r", "y">>, recurses |-> TRUE],
     [prefix |-> TRUE, affix |-> <<"qi3", "yong">>, pre |-> <<"E", "n", "a", "b", "l", "e", " ">>, post |-> <<>>, recurses |-> TRUE],
     [prefix |-> TRUE, affix |-> <<"jin", "yong">>, pre |-> <<"D", "i", "s", "a", "b", "l", "e", " ">>, post |-> <<>>, recurses |-> TRUE] >>

AffixMatches(a, t) == IF a.prefix THEN startswith(t, a.affix) ELSE endswith(t, a.affix)

\* the first affix rule whose test holds of the text
FirstAffix(t) ==
  AffixTable[CHOOSE i \in 1..Len(AffixTable) :
               /\ AffixMatches(AffixTable[i], t)
               /\ \A j \in 1..(i - 1) : ~AffixMatches(AffixTable[j], t)]

\* Remainder of a rule that hands the whole text to the nested call
Remainder_whole(a, t) == t

\* what is left of the text without the affix of the rule
Remainder(a, t) == IF a.prefix THEN dropFirst(t, Len(a.affix)) ELSE dropLast(t, Len(a.affix))

\* the rule's template around the raw remainder
RawForm(a, x) == a.pre \o x \o a.post

\* the rule's template around a resolved remainder: a prefix rule puts it in
\* lower case
RecForm(a, r) == a.pre \o (IF a.prefix THEN lower(r) ELSE r) \o a.post

\* txt is taken by an affix rule and its remainder is no dictionary key
AffixMiss ==
  /\ txt \notin DictKeys
  /\ MatchesAffix(txt)
  /\ Remainder(FirstAffix(txt), txt) \notin DictKeys

\* C13 as stated: every affix rule resolves a remainder that is no key by
\* translate_text, and uses the raw remainder only when that yields nothing.
\* 加载猫和 gives 'Load 猫和' although 猫和 resolves to '猫 and ': fails.
C13_RawOnlyWhenRecursionFails ==
  (res # NotCalled /\ AffixMiss) =>
    LET a == FirstAffix(txt)
        x == Remainder(a, txt)
    IN  truthy(translate_text(x, <<>>)) => res # Some(RawForm(a, x))

\* C13 amended: the rules marked in the table (失败 成功 请 列表 设置 文件 路径
\* 选择 打开 名称 信息 目录 启用 禁用) resolve such a remainder by
\* translate_text and fall back to the raw remainder; the others (加载 已 中
\* 未 暂无 模式 类型 选择器 字段 错误 包) always use the raw remainder.
C13_RecursionOnlyInSomeRules ==
  (res # NotCalled /\ AffixMiss) =>
    LET a == FirstAffix(txt)
        x == Remainder(a, txt)
        r == translate_text(x, <<>>)
    IN  res = Some(IF a.recurses /\ truthy(r) THEN RecForm(a, r.s) ELSE RawForm(a, x))

\* C13 witness: 加载猫和 is 'Load 猫和', with the remainder raw, although
\* translate_text resolves 猫和
C13_Witness ==
  /\ txt = <<"jia", "zai", "mao", "he">>
  /\ AffixMiss
  /\ truthy(translate_text(<<"mao", "he">>, <<>>))
  /\ res = Some(<<"L", "o", "a", "d", " ", "mao", "he">>)

\* the rules of translate_text numbered in the order of the source: 1 to 25
\* are the affix rules, 26 to 30 the particle rules
RuleCount == Len(AffixTable) + Cardinality(Particles)

LastAffixRule == Len(AffixTable)

\* the test of rule i
RuleTest(i, t) ==
  CASE i = 1 -> startswith(t, <<"jia", "zai">>)
    [] i = 2 -> endswith(t, <<"shi", "bai">>)
    [] i = 3 -> endswith(t, <<"cheng", "gong">>)
    [] i = 4 -> startswith(t, <<"yi">>)
    [] i = 5 -> endswith(t, <<"zhong">>)
    [] i = 6 -> startswith(t, <<"wei">>)
    [] i = 7 -> startswith(t, <<"qing">>)
    [] i = 8 -> startswith(t, <<"zan", "wu">>)
    [] i = 9 -> endswith(t, <<"lie", "biao">>)
    [] i = 10 -> endswith(t, <<"she", "zhi">>)
    [] i = 11 -> endswith(t, <<"mo", "shi4">>)
    [] i = 12 -> endswith(t, <<"lei", "xing">>)
    [] i = 13 -> endswith(t, <<"wen", "jian4">>)
    [] i = 14 -> endswith(t, <<"xuan", "ze", "qi4">>)
    [] i = 15 -> endswith(t, <<"zi", "duan">>)
    [] i = 16 -> endswith(t, <<"lu", "jing">>)
    [] i = 17 -> startswith(t, <<"xuan", "ze">>)
    [] i = 18 -> startswith(t, <<"da", "kai">>)
    [] i = 19 -> endswith(t, <<"ming", "cheng1">>)
    [] i = 20 -> endswith(t, <<"xin", "xi">>)
    [] i = 21 -> endswith(t, <<"cuo", "wu4">>)
    [] i = 22 -> endswith(t, <<"bao1">>)
    [] i = 23 -> endswith(t, <<"mu", "lu4">>)
    [] i = 24 -> startswith(t, <<"qi3", "yong">>)
    [] i = 25 -> startswith(t, <<"jin", "yong">>)
    [] i = 26 -> contains(t, <<"de">>)
    [] i = 27 -> contains(t, <<"he">>)
    [] i = 28 -> contains(t, <<"huo">>)
    [] i = 29 -> contains(t, <<"hou">>) /\ ~endswith(t, <<"hou">>)
    [] i = 30 -> contains(t, <<"zhong">>) /\ ~endswith(t, <<"zhong">>)

\* what rule i returns
RuleResult(i, t) ==
  CASE i = 1 -> rule_load(t, <<>>)
    [] i = 2 -> rule_failed(t, <<>>)
    [] i = 3 -> rule_successful(t, <<>>)
    [] i = 4 -> rule_already(t, <<>>)
    [] i = 5 -> rule_in_progress(t, <<>>)
    [] i = 6 -> rule_not(t, <<>>)
    [] i = 7 -> rule_please(t, <<>>)
    [] i = 8 -> rule_none_available(t, <<>>)
    [] i = 9 -> rule_list(t, <<>>)
    [] i = 10 -> rule_settings(t, <<>>)
    [] i = 11 -> rule_mode(t, <<>>)
    [] i = 12 -> rule_type(t, <<>>)
    [] i = 13 -> rule_file(t, <<>>)
    [] i = 14 -> rule_selector(t, <<>>)
    [] i = 15 -> rule_field(t, <<>>)
    [] i = 16 -> rule_path(t, <<>>)
    [] i = 17 -> rule_select(t, <<>>)
    [] i = 18 -> rule_open(t, <<>>)
    [] i = 19 -> rule_name(t, <<>>)
    [] i = 20 -> rule_information(t, <<>>)
    [] i = 21 -> rule_error(t, <<>>)
    [] i = 22 -> rule_package(t, <<>>)
    [] i = 23 -> rule_directory(t, <<>>)
    [] i = 24 -> rule_enable(t, <<>>)
    [] i = 25 -> rule_disable(t, <<>>)
    [] i = 26 -> rule_possessive(t, <<>>)
    [] i = 27 -> rule_and(t, <<>>)
    [] i = 28 -> rule_or(t, <<>>)
    [] i = 29 -> rule_after(t, <<>>)
    [] i = 30 -> rule_in(t, <<>>)

\* the rules whose test holds of the text
Matching(t) == {i \in 1..RuleCount : RuleTest(i, t)}

\* the first of them
FirstRule(t) == CHOOSE i \in Matching(t) : \A j \in Matching(t) : i <= j

\* C20: on a text that is no dictionary key translate_text returns what the
\* first rule, in the one fixed order with every affix rule before every
\* particle rule, whose test holds returns, and None when no test holds; a
\* text that an affix rule takes and that contains a particle is answered by
\* the affix rule, not split on the particle.
C20_FirstMatchingRuleWins ==
  (res # NotCalled /\ txt \notin DictKeys) =>
    /\ Matching(txt) = {} => res = None
    /\ Matching(txt) # {} => res = RuleResult(FirstRule(txt), txt)
    /\ (MatchesAffix(txt) /\ ~HasNone(txt, Particles)) =>
         /\ FirstRule(txt) <= LastAffixRule
         /\ res = RuleResult(FirstRule(txt), txt)

\* C20 witness: 加载和猫 begins with 加载 and contains 和: it is 'Load 和猫'
\* of the rule "加载X", not the 'Load and 猫' of a split on 和
C20_Witness ==
  /\ txt = <<"jia", "zai", "he", "mao">>
  /\ txt \notin DictKeys
  /\ MatchesAffix(txt) /\ contains(txt, <<"he">>)
  /\ FirstRule(txt) = 1
  /\ res = Some(<<"L", "o", "a", "d", " ", "he", "mao">>)
  /\ rule_and(txt, <<>>) = Some(<<"L", "o", "a", "d", " ", "a", "n", "d", " ", "mao">>)

\* the particle rule i splits on
ParticleOf(i) ==
  CASE i = 26 -> <<"de">>
    [] i = 27 -> <<"he">>
    [] i = 28 -> <<"huo">>
    [] i = 29 -> <<"hou">>
    [] i = 30 -> <<"zhong">>

\* the English template of particle rule i around the two resolved sides
ParticleJoin(i, left_trans, right_trans, right) ==
  CASE i = 26 -> IF right \in GenericNouns
                 THEN right_trans \o <<" ", "o", "f", " ">> \o left_trans
                 ELSE left_trans \o <<"'", "s", " ">> \o right_trans
    [] i = 27 -> left_trans \o <<" ", "a", "n", "d", " ">> \o right_trans
    [] i = 28 -> left_trans \o <<" ", "o", "r", " ">> \o right_trans
    [] i = 29 -> right_trans \o <<" ", "a", "f", "t", "e", "r", " ">> \o left_trans
    [] i = 30 -> right_trans \o <<" ", "i", "n", " ">> \o left_trans

\* the rules that return a value in the calls of translate_text the call on t
\* makes, itself included: none for a dictionary key and for a text no rule
\* takes; the first matching rule, with those of the call on its remainder
\* (an affix rule that resolves a remainder that is no key) or on its two
\* sides (a particle rule)
RECURSIVE Fired(_)
Fired(t) ==
  IF t \in DictKeys \/ Matching(t) = {} THEN {}
  ELSE LET i == FirstRule(t)
       IN  IF i <= LastAffixRule
           THEN LET a == AffixTable[i]
                    x == Remainder(a, t)
                IN  {i} \cup (IF a.recurses /\ x \notin DictKeys THEN Fired(x) ELSE {})
           ELSE LET parts == split1(t, ParticleOf(i))
                IN  {i} \cup Fired(parts[1]) \cup Fired(parts[2])

\* what one call makes of a segment by one rule: the dictionary value of a
\* key, else the result of the first rule whose test holds, and the segment
\* itself when there is none or the result is empty
OneRule(t) ==
  LET r == IF t \in DictKeys THEN Some(TRANSLATIONS(t))
           ELSE IF Matching(t) = {} THEN None
           ELSE RuleResult(FirstRule(t), t)
  IN  IF truthy(r) THEN r.s ELSE t

\* C21 as stated: the result written for a pending entry is never assembled
\* from both an affix rule and a particle rule.  请猫和 is written
\* 'Please 猫 and ': the rule "请X" around the result of the rule "X和Y" for
\* its remainder: fails.
C21_OneRuleCategory ==
  (tr.pc = "done" /\ tr.count = 1) =>
    ~(\E i \in Fired(txt), j \in Fired(txt) : i <= LastAffixRule /\ j > LastAffixRule)

\* C21 amended: each call of translate_text returns the result of one rule,
\* the first whose test holds, but that rule resolves its remainder or its
\* sides by calls of translate_text that again use one rule each, so the
\* written result is assembled from the rules of all these calls: an affix
\* rule that resolves its remainder writes its template around what the rule
\* of the remainder returns, a particle rule included, and a particle rule
\* joins what the rules of its two sides return, affix rules included.
C21_OneRulePerCall ==
  (tr.pc = "done" /\ txt \notin DictKeys /\ Matching(txt) # {}) =>
    LET i == FirstRule(txt)
    IN  /\ ( /\ i <= LastAffixRule
              /\ AffixTable[i].recurses
              /\ Remainder(AffixTable[i], txt) \notin DictKeys
              /\ Matching(Remainder(AffixTable[i], txt)) # {} ) =>
             LET a == AffixTable[i]
                 x == Remainder(a, txt)
                 inner == RuleResult(FirstRule(x), x)
             IN  Written = Str(IF truthy(inner) THEN RecForm(a, inner.s) ELSE RawForm(a, x))
        /\ i > LastAffixRule =>
             LET parts == split1(txt, ParticleOf(i))
             IN  Written = Str(ParticleJoin(i, OneRule(parts[1]), OneRule(parts[2]), parts[2]))

\* C21 witness: 请猫和 is written 'Please 猫 and ', assembled from the rule
\* "请X" and, for its remainder 猫和, the rule "X和Y"
C21_Witness ==
  /\ tr.pc = "done" /\ tr.count = 1
  /\ txt = <<"qing", "mao", "he">>
  /\ Fired(txt) = {7, 27}
  /\ Written = Str(<<"P", "l", "e", "a", "s", "e", " ", "mao", " ", "a", "n", "d", " ">>)

\* the texts the call of translate_text on t hands to translate_text itself:
\* none for a dictionary key and for a text no rule takes; the remainder, for
\* an affix rule that resolves a remainder that is no key; the two sides, for
\* a particle rule
CallsOf(t) ==
  IF t \in DictKeys \/ Matching(t) = {} THEN {}
  ELSE LET i == FirstRule(t)
       IN  IF i <= LastAffixRule
           THEN LET a == AffixTable[i]
                    x == Remainder(a, t)
                IN  IF a.recurses /\ x \notin DictKeys THEN {x} ELSE {}
           ELSE LET parts == split1(t, ParticleOf(i))
                IN  {parts[1], parts[2]}

\* the texts of the calls n levels below the call on t
RECURSIVE NestedCalls(_, _)
NestedCalls(t, n) ==
  IF n = 0 THEN {t} ELSE UNION {CallsOf(c) : c \in NestedCalls(t, n - 1)}

\* C27: the call of translate_text returns; every call it makes of itself, at
\* any level, is on a text strictly shorter than the text of the call that
\* makes it, and no call is more levels below the first than the text has
\* characters.
C27_RecursionOnShorterText ==
  res # NotCalled =>
    /\ \A n \in 0..Len(txt) : \A p \in NestedCalls(txt, n) : \A c \in CallsOf(p) :
         Len(c) < Len(p)
    /\ NestedCalls(txt, Len(txt) + 1) = {}
    /\ res = None \/ res = Some(res.s)

\* C27 witness: the call on 请猫和 calls itself on 猫和 (the affix 请
\* stripped), and that call on 猫 and on the empty text (the sides of 和);
\* these two make no further call
C27_Witness ==
  /\ res = Some(<<"P", "l", "e", "a", "s", "e", " ", "mao", " ", "a", "n", "d", " ">>)
  /\ txt = <<"qing", "mao", "he">>
  /\ NestedCalls(txt, 1) = {<<"mao", "he">>}
  /\ NestedCalls(txt, 2) = {<<"mao">>, <<>>}
  /\ NestedCalls(txt, 3) = {}

----------------------------------------------------------------------------
\* Claims about the splitting rules of translate_text (specification SpecSplit)

\* the particle the text is split on: the text is no dictionary key, no affix
\* rule takes it, and the rule of 和, 或 or 后 is the one that takes it
SplitOn(p) ==
  /\ txt \notin DictKeys
  /\ ~MatchesAffix(txt)
  /\ Matching(txt) # {}
  /\ FirstRule(txt) > LastAffixRule
  /\ ParticleOf(FirstRule(txt)) = p

\* the text before the first occurrence of p
LeftOfFirst(t, p) == SubSeq(t, 1, find(t, p) - 1)

\* the text after the first occurrence of p
RightOfFirst(t, p) == SubSeq(t, find(t, p) + Len(p), Len(t))

\* C22: a text that is no dictionary key and matches no affix rule, when split
\* on 和, 或 or a non-final 后, is split at the first occurrence of the
\* particle only (the left side holds none, the right side keeps the later
\* ones); each side is resolved by translate_text, the raw side standing where
\* that resolves nothing, and the sides are written '<left> and <right>',
\* '<left> or <right>' and '<right> after <left>'.
C22_SplitAtFirstOccurrence ==
  tr.pc = "done" =>
    \A p \in SplitParticles :
      SplitOn(p) =>
        LET left == LeftOfFirst(txt, p)
            right == RightOfFirst(txt, p)
        IN  /\ txt = left \o p \o right
            /\ ~contains(left, p)
            /\ p = <<"hou">> => ~endswith(txt, p)
            /\ Written = Str(CASE p = <<"he">> -> Resolved(left) \o <<" ", "a", "n", "d", " ">> \o Resolved(right)
                               [] p = <<"huo">> -> Resolved(left) \o <<" ", "o", "r", " ">> \o Resolved(right)
                               [] p = <<"hou">> -> Resolved(right) \o <<" ", "a", "f", "t", "e", "r", " ">> \o Resolved(left))

\* C22 witness: 猫后加载后猫 is split at its first 后: the left side 猫 is
\* unresolved and stays raw, the right side 加载后猫 keeps the second 后 and
\* is resolved as a whole, to 'Load 后猫'
C22_Witness ==
  /\ tr.pc = "done"
  /\ txt = <<"mao", "hou", "jia", "zai", "hou", "mao">>
  /\ SplitOn(<<"hou">>)
  /\ translate_text(<<"mao">>, <<>>) = None
  /\ RightOfFirst(txt, <<"hou">>) = <<"jia", "zai", "hou", "mao">>
  /\ Written = Str(<<"L", "o", "a", "d", " ", "hou", "mao", " ", "a", "f", "t", "e", "r", " ", "mao">>)

----------------------------------------------------------------------------
\* Claims about the translator's run over one entry (specification SpecText)

\* C12 as stated: a pending entry whose source text is no dictionary key,
\* matches no affix rule and contains none of 的 和 或 后 is left as it was.
\* The code has a fifth particle rule, "X中Y" -> "Y in X": 猫中猫 is written
\* as '猫 in 猫': fails.
C12_UnresolvedWithoutFourParticles ==
  tr.pc = "done" =>
    \A i \in 1..Len(tr.before) :
      LET v == tr.before[i].value
      IN  ( /\ IsPending(v)
            /\ SourceText(v) \notin DictKeys
            /\ ~MatchesAffix(SourceText(v))
            /\ HasNone(SourceText(v), {<<"de">>, <<"he">>, <<"huo">>, <<"hou">>}) ) =>
            catalogFile[i].value = v

\* C12 amended: an entry the translator treats as pending, whose source text
\* as the translator computes it is no dictionary key, matches no affix rule
\* and contains none of the five particles 的 和 或 后 中, is left as it was.
C12_UnresolvedWithoutFiveParticles ==
  tr.pc = "done" =>
    \A i \in 1..Len(tr.before) :
      ( /\ tr.seen[i].hit
        /\ tr.seen[i].chinese \notin DictKeys
        /\ ~MatchesAffix(tr.seen[i].chinese)
        /\ HasNone(tr.seen[i].chinese, Particles) ) =>
        catalogFile[i].value = tr.before[i].value

\* C12 witness: 猫猫 is in no rule; the entry is still pending after the run,
\* which translated nothing
C12_Witness ==
  /\ tr.pc = "done"
  /\ txt = <<"mao", "mao">>
  /\ tr.seen[1].hit /\ tr.seen[1].chinese = txt
  /\ txt \notin DictKeys /\ ~MatchesAffix(txt) /\ HasNone(txt, Particles)
  /\ tr.count = 0
  /\ Written = Str(MARKER_SP \o txt)

----------------------------------------------------------------------------
\* Claims about single rules of translate_text (specification SpecText)

\* the English past participle of a verb of the closed set, and any other word
\* unchanged
PastParticiple(v) ==
  CASE v = <<"A", "r", "c", "h", "i", "v", "e">> -> <<"A", "r", "c", "h", "i", "v", "e", "d">>
    [] v = <<"D", "e", "l", "e", "t", "e">> -> <<"D", "e", "l", "e", "t", "e", "d">>
    [] v = <<"A", "d", "d">> -> <<"A", "d", "d", "e", "d">>
    [] v = <<"E", "d", "i", "t">> -> <<"E", "d", "i", "t", "e", "d">>
    [] v = <<"S", "a", "v", "e">> -> <<"S", "a", "v", "e", "d">>
    [] v = <<"L", "o", "a", "d">> -> <<"L", "o", "a", "d", "e", "d">>
    [] v = <<"C", "o", "p", "y">> -> <<"C", "o", "p", "i", "e", "d">>
    [] v = <<"E", "x", "p", "o", "r", "t">> -> <<"E", "x", "p", "o", "r", "t", "e", "d">>
    [] OTHER -> v

\* txt is 已X, no dictionary key itself, with X a dictionary key
AlreadyOnKey ==
  /\ startswith(txt, <<"yi">>)
  /\ txt \notin DictKeys
  /\ dropFirst(txt, 1) \in DictKeys

\* C14 as stated: every such 已X gives the past participle of dict[X] for the
\* eight verbs and dict[X] unchanged otherwise.  已加载失败 ends with 失败, the
\* rule "X失败" comes first and gives 'Loaded failed', not the 'Failed to load'
\* of dict[加载失败]: fails.
C14_AlreadyForAllKeys ==
  (res # NotCalled /\ AlreadyOnKey) =>
    res = Some(PastParticiple(TRANSLATIONS(dropFirst(txt, 1))))

\* C14 amended: it holds when 已X does not end with 失败 or 成功, the two
\* suffix rules tried before "已X".
C14_AlreadyUnlessSuffixRule ==
  ( /\ res # NotCalled
    /\ AlreadyOnKey
    /\ ~endswith(txt, <<"shi", "bai">>)
    /\ ~endswith(txt, <<"cheng", "gong">>) ) =>
    res = Some(PastParticiple(TRANSLATIONS(dropFirst(txt, 1))))

\* C14 witness: 已归档 is no key, 归档 is 'Archive': 'Archived'
C14_Witness ==
  /\ txt = <<"yi", "gui", "dang">>
  /\ AlreadyOnKey
  /\ TRANSLATIONS(dropFirst(txt, 1)) = <<"A", "r", "c", "h", "i", "v", "e">>
  /\ res = Some(<<"A", "r", "c", "h", "i", "v", "e", "d">>)

----------------------------------------------------------------------------
\* Claims about the translator's counts (specification SpecLong)

\* C15: the translator never divides by zero: no run ends with
\* ZeroDivisionError, every division it performs (progress line, coverage) has
\* a total of at least 1, and with no pending entry the coverage reported is 0.
C15_NoDivisionByZero ==
  /\ tr.pc # "crashed" /\ tr.error = ""
  /\ \A i \in 1..Len(tr.denoms) : tr.denoms[i] >= 1
  /\ tr.progress # <<>> => tr.total >= 1
  /\ (tr.pc = "done" /\ tr.total = 0) => (tr.coverage = 0 /\ tr.denoms = <<>>)

\* C15 witness: 101 pending entries of which 100 are resolved: the progress
\* line 100/101 was printed (99%), and the coverage is 99
C15_Witness ==
  /\ tr.pc = "done"
  /\ tr.total = 101 /\ tr.count = ProgressEvery
  /\ tr.progress = <<99>>
  /\ tr.denoms = <<101, 101>>
  /\ tr.coverage = 99

----------------------------------------------------------------------------
\* Claims about runs that stop early (specification SpecKill)

\* C23: an invocation of the import or of the translator opens en.json once
\* to read and once to write; it writes only after its loop has passed every
\* entry, and it writes the whole mapping it computed; as long as it has not
\* opened the file to write (also when it has ended by then: no side
\* artifact, a file that does not load, killed in the loop) en.json is what
\* it was when the invocation started.
C23_ReadOnceWriteOnce ==
  /\ imp.pc # "idle" =>
       /\ imp.reads <= 1 /\ imp.writes <= 1
       /\ imp.writes = 0 => catalogFile = imp.before
       /\ imp.writes = 1 => imp.reads = 1 /\ Len(imp.seen) = Len(imp.before)
       /\ imp.pc = "done" =>
            /\ imp.reads = 1 /\ imp.writes = 1
            /\ catalogFile = imp_loop(imp.translations, imp.before)
  /\ tr.pc # "idle" =>
       /\ tr.reads = 1 /\ tr.writes <= 1
       /\ tr.writes = 0 => catalogFile = tr.before
       /\ tr.writes = 1 => Len(tr.seen) = Len(tr.before)
       /\ tr.pc \in {"saved", "done"} =>
            /\ tr.writes = 1
            /\ catalogFile = tr_loop(tr.before)

\* C23 witness: the translator was killed in its loop after it had resolved
\* an entry in memory: en.json is still what it was
C23_Witness ==
  /\ tr.pc = "killed"
  /\ tr.reads = 1 /\ tr.writes = 0
  /\ tr.count >= 1
  /\ tr.data # tr.before
  /\ catalogFile = tr.before

\* C24 as stated: when a run of the translator was killed, at whatever point,
\* en.json holds every entry either as it was or as the run writes it, and a
\* complete run from that state ends with the catalog an uninterrupted run
\* ends with.  A run killed inside json.dump leaves a part of the text, which
\* holds no entries and which no run can load: fails.
C24_KillSafeAtAnyPoint ==
  tr.pc = "killed" =>
    /\ catalogFile # Truncated
    /\ Len(catalogFile) = Len(tr.before)
    /\ \A i \in 1..Len(catalogFile) :
         catalogFile[i] \in {tr.before[i], tr_loop(tr.before)[i]}
    /\ tr_loop(catalogFile) = tr_loop(tr.before)

\* C24 amended: a run killed before it opened en.json to write leaves the file
\* as it was (no entry translated), and a complete run from there ends with
\* the catalog of an uninterrupted run; a run killed after the write leaves
\* that catalog; a run killed inside the write leaves a part of the text,
\* and the next run ends at its json.load with JSONDecodeError and changes
\* nothing.  A complete run writes tr_loop of what it read.
C24_KillSafeOutsideTheWrite ==
  /\ (tr.pc = "killed" /\ tr.writes = 0) =>
       /\ catalogFile = tr.before
       /\ tr_loop(catalogFile) = tr_loop(tr.before)
  /\ (tr.pc = "killed" /\ tr.writes = 1) =>
       catalogFile \in {Truncated, tr_loop(tr.before)}
  /\ (tr.pc # "idle" /\ tr.before = Truncated) =>
       /\ tr.pc = "crashed" /\ tr.error = "JSONDecodeError"
       /\ catalogFile = Truncated
  /\ tr.pc = "done" => catalogFile = tr_loop(tr.before)

\* C24 witness: a run was killed in its loop after it had resolved an entry in
\* memory, and the next run, complete, wrote the catalog of an uninterrupted
\* run
C24_Witness ==
  /\ hist = <<"translate_killed", "translate">>
  /\ tr.pc = "done"
  /\ tr.count >= 1
  /\ catalogFile # tr.before
  /\ catalogFile = tr_loop(tr.before)

----------------------------------------------------------------------------
\* Claims about two runs at the same time (specification SpecRace)

\* the place of an event in hist, 0 when it did not happen
Pos(ev) == IF \E k \in 1..Len(hist) : hist[k] = ev
           THEN CHOOSE k \in 1..Len(hist) : hist[k] = ev
           ELSE 0

\* both runs opened en.json to write and closed it
BothWrote == Pos("import_written") > 0 /\ Pos("translate_written") > 0

\* the import closed en.json after the translator did
ImportWroteLast == Pos("import_written") > Pos("translate_written")

\* what each run computes from the catalog it read
ImportOutput == imp_loop(imp.translations, imp.read)
TranslatorOutput == tr_loop(tr.before)

LastOutput == IF ImportWroteLast THEN ImportOutput ELSE TranslatorOutput
OtherOutput == IF ImportWroteLast THEN TranslatorOutput ELSE ImportOutput

\* one run opened en.json to write while the other had it open to write
WritesOverlap ==
  /\ Pos("import_opened") < Pos("translate_written")
  /\ Pos("translate_opened") < Pos("import_written")

\* C26 as stated: when the runs of the import and of the translator
\* interleave and both have written, en.json holds the output of the run that
\* wrote last, computed from the catalog that run read
C26_LastWriterWins == BothWrote => catalogFile = LastOutput

\* C26: when both runs have written and neither opened en.json to write while
\* the other had it open, en.json holds the output of the run that wrote
\* last, computed from the catalog that run read; when the writes overlap,
\* en.json holds that output only if the text of the other run is not longer,
\* and otherwise a text that is no JSON; neither run reports an error.  A run
\* that reads en.json while the other has it open to write ends with
\* JSONDecodeError, and en.json then holds the output of the other run
C26_LastWriterWinsUnlessWritesOverlap ==
  /\ BothWrote =>
       /\ imp.error = "" /\ imp.exit = 0 /\ tr.error = ""
       /\ imp.writes = 1 /\ tr.writes = 1
       /\ ~WritesOverlap => catalogFile = LastOutput
       /\ WritesOverlap =>
            catalogFile = IF TextLen(OtherOutput) <= TextLen(LastOutput)
                          THEN LastOutput
                          ELSE Garbled
  /\ tr.pc = "crashed" =>
       /\ tr.before = Emptied
       /\ tr.error = "JSONDecodeError"
       /\ Pos("import_opened") > 0
       /\ imp.pc = "done" => catalogFile = ImportOutput
  /\ imp.pc = "crashed" =>
       /\ imp.error = "JSONDecodeError"
       /\ Pos("translate_opened") > 0
       /\ tr.pc \in {"saved", "done"} => catalogFile = TranslatorOutput

\* the import puts a translation into an entry, the translator, which read
\* the catalog before that, writes afterwards: the entry is pending again and
\* both runs ended without an error
C26_Witness ==
  /\ BothWrote
  /\ imp.pc = "done" /\ tr.pc = "done"
  /\ Pos("import_written") < Pos("translate_opened")
  /\ tr.before = imp.read
  /\ catalogFile = TranslatorOutput
  /\ \E i \in 1..Len(imp.read) :
       /\ imp_is_todo(imp.read[i].value)
       /\ ~imp_is_todo(imp.data[i].value)
       /\ catalogFile[i].value = imp.read[i].value
  /\ imp.error = "" /\ tr.error = ""

----------------------------------------------------------------------------
\* Claims about the manual workflow (specification SpecPipeline)

\* hist ends with the events tail, and before them, after any number of
\* slots filled in, with an extraction that saved
AfterExtractionAndFills(tail) ==
  LET n == Len(hist) - Len(tail)
  IN  /\ n >= 1
      /\ SubSeq(hist, n + 1, Len(hist)) = tail
      /\ \E j \in 1..n :
           /\ hist[j] = "extract"
           /\ \A k \in (j + 1)..n : hist[k] = "fill"

\* every slot holds a translation that is not empty and does not begin with
\* the marker
AllFilled(map) ==
  \A k \in DOMAIN map : map[k] # <<>> /\ ~startswith(map[k], MARKER)

\* C28: when the import runs on the side artifact that extraction made from
\* the catalog, the source text the import computes for each pending entry is
\* a key of that artifact; if every slot was filled in with a translation
\* that is not empty and does not begin with the marker, then after the
\* import no entry of the catalog is pending, and a further extraction finds
\* nothing and saves an empty artifact.
C28_ExtractionAndImportAgree ==
  /\ (imp.pc = "done" /\ AfterExtractionAndFills(<<"import">>)) =>
       /\ DOMAIN imp.translations = DOMAIN ext_loop(imp.read, 1, EmptyDict)
       /\ \A i \in 1..Len(imp.read) :
            imp_is_todo(imp.read[i].value) =>
              imp_chinese(imp.read[i].value) \in DOMAIN imp.translations
       /\ AllFilled(imp.translations) =>
            /\ \A i \in 1..Len(catalogFile) :
                 /\ ~ext_is_todo(catalogFile[i].value)
                 /\ ~IsPending(catalogFile[i].value)
            /\ ext_loop(catalogFile, 1, EmptyDict) = EmptyDict
  /\ ( /\ ext.pc = "done"
       /\ AfterExtractionAndFills(<<"import", "extract">>)
       /\ AllFilled(ext.sideBefore.map) ) =>
       /\ ext.todos = EmptyDict
       /\ ext.found = 0
       /\ sideFile = File(EmptyDict)
       /\ \A i \in 1..Len(catalogFile) : ~ext_is_todo(catalogFile[i].value)

\* C28 witness: extraction, 'Cat' typed into the one slot, import, and a
\* second extraction that finds nothing: the catalog holds 'Cat' and the
\* artifact is empty
C28_Witness ==
  /\ hist = <<"extract", "fill", "import", "extract">>
  /\ ext.pc = "done"
  /\ DOMAIN ext.sideBefore.map # {}
  /\ AllFilled(ext.sideBefore.map)
  /\ \E i \in 1..Len(catalogFile) : catalogFile[i].value = Str(<<"C", "a", "t">>)
  /\ ext.todos = EmptyDict
  /\ sideFile = File(EmptyDict)

====
